---- MODULE Spec2Model ----
(***************************************************************************)
(* simple-localtube: the channel/video ingestion pipeline                  *)
(* (downloader/fetch-videos.ts), its playlist scanner                      *)
(* (downloader/get-channel-video-ids.ts) and the catalog it talks to       *)
(* (the server's /public-api routes over media-db).                        *)
(*                                                                         *)
(* The specifications of this module:                                      *)
(*   SpecScan  one call of getLatestVideoUrls, one action per window       *)
(*   SpecMeta  one call of fetchMetaForChannel and the registration that   *)
(*             follows it in addChannelIfNotExists                         *)
(*   SpecApi   the server answering requests, one action per request       *)
(*   Spec      runs of the pipeline process over a media root, a           *)
(*             subscription document and a catalog                         *)
(*   SpecEdit  Spec with an operator editing the subscription document     *)
(* Each specification leaves the others' variables parked.                 *)
(***************************************************************************)
EXTENDS Integers, Sequences, FiniteSets, TLC

VARIABLES
  \* ---- getLatestVideoUrls (SpecScan) ----
  scanPc,        \* "parked" | "loop" | "returned" | "threw"
  scanList,      \* the channel's remote list, newest first: sequence of video ids
  scanKnown,     \* video ids the catalog answers hasVideo = true for
  scanBad,       \* positions whose printed url toVideoID cannot parse
  scanAll,       \* the `all` argument (full backfill)
  startIndex,    \* let startIndex
  newVideoIds,   \* const newVideoIds
  scanRequests,  \* the --playlist-items windows requested so far: sequence of <<start, end>>
  \* ---- fetchMetaForChannel (SpecMeta) ----
  metaPc,        \* "parked" | "spawn" | "fetch" | "move" | "dispose" | "register" | "registered" | "threw"
  metaThumbs,    \* contents.thumbnails of the channel's info json
  metaBanner,    \* let banner, NoThumb for null
  metaFetchQ,    \* the fetchTo calls still to make: sequence of basenames
  metaTemp,      \* files in tempDir
  metaDir,       \* files in <mediaDir>/<channelId>
  metaMoves,     \* files whose move() has been started and has not finished
  metaFailure,   \* what went wrong with the tool or a response, "none" if nothing
  metaReg,       \* add-channel has answered true
  metaChannel,   \* the file names of the record channelFromDisk returned
  \* ---- the server (SpecApi) ----
  apiPc,         \* "parked" | "serving"
  apiUsers,      \* hasAnyUsers()
  apiChannels,   \* rows of the channels table
  apiVideos,     \* rows of the videos table
  apiAdded,      \* channel ids add-channel has answered true for
  apiLast,       \* the last request and the answer it got
  \* ---- LRUCache (SpecLru) ----
  lruPc,         \* "parked" | "ready"
  lruMax,        \* private maxSize
  lruCache,      \* private cache: the Map's entries in insertion order
  lruUsed,       \* key -> the time of its last set, or get that returned a value
  lruClock,      \* calls made so far
  lruLast,       \* the last call: what it was, what it found and what it removed
  \* ---- accounts and content routes (SpecUsers) ----
  usrDb,         \* the users table: username -> permissions
  usrReq,        \* slot -> the request awaiting its password hash, if any
  usrCount,      \* account requests received so far
  usrMade,       \* the accounts created: who asked, through which route, with what
  usrLast,       \* the last answer: route, asking user, status, channels whose content it served
  \* ---- the world the pipeline runs in (Spec): survives the process ----
  doc,           \* the subscription document on disk: [exists, subscribing, subscribed, titles]
  mediaTemps,    \* number of tmp-localtube-* entries in the media root
  tempFiles,     \* files in the staging directory of the ingestion under way
  channelDir,    \* channel id -> [exists, files]: <mediaDir>/<channel_id>
  videoDir,      \* video id -> [exists, files]: <mediaDir>/<channel_id>/<video_id>
  catChannels,   \* rows of the catalog's channels table
  catVideos,     \* rows of the catalog's videos table
  \* ---- one process of fetch-videos.ts ----
  pc,            \* where the process is; "idle" before the first start
  status,        \* let status
  subbed,        \* const subbed
  channel,       \* the channel being processed (const channel), or NoChannel
  mode,          \* "subscribe" | "update": which function the channel is in
  updIdx,        \* position of the for-of over status.subscribed
  videoIds,      \* the rest of `for (const videoId of videoIds)`
  videoId,       \* the video being ingested, or NoVideo
  moveQueue,     \* the moves of the commit still to do: sequence of <<source, destination>>
  \* ---- history, for stating the properties ----
  runs,          \* processes started so far
  doc0,          \* the subscription document before the first start
  err,           \* why the last process ended, "none" while it runs
  prevDone,      \* the process before this one ran to its end without error
  tempsAtStart,  \* the media root held a tmp-localtube- entry when this process started
  docAtStart,    \* the document when this process started
  runDocTouched, \* this process has read or written the document
  runTool,       \* extraction-tool invocations of this process
  runCatReqs,    \* requests this process has sent to the server
  attempted,     \* channels whose subscribe/updateExisting this process has entered
  updated,       \* channels whose updateExisting this process has entered
  backfilled,    \* channels whose subscribe() has returned normally in this process
  lastListing,   \* what the last extraction of this process left in its staging directory
  committed,     \* videos whose commit moved every validated file (any process)
  appended       \* channels another writer appended during this process: before or after
                 \* the drain loop ended, and whether readStatus() has returned them

scanVars == <<scanPc, scanList, scanKnown, scanBad, scanAll, startIndex, newVideoIds, scanRequests>>
worldVars == <<doc, mediaTemps, tempFiles, channelDir, videoDir, catChannels, catVideos>>
procVars == <<pc, status, subbed, channel, mode, updIdx, videoIds, videoId, moveQueue>>
histVars == <<runs, doc0, err, prevDone, tempsAtStart, docAtStart, runDocTouched, runTool,
              runCatReqs, attempted, updated, backfilled, lastListing, committed>>
pipeVars == <<worldVars, procVars, histVars, appended>>
metaVars == <<metaPc, metaThumbs, metaBanner, metaFetchQ, metaTemp, metaDir, metaMoves,
              metaFailure, metaReg, metaChannel>>
apiVars == <<apiPc, apiUsers, apiChannels, apiVideos, apiAdded, apiLast>>
lruVars == <<lruPc, lruMax, lruCache, lruUsed, lruClock, lruLast>>
usrVars == <<usrDb, usrReq, usrCount, usrMade, usrLast>>
\* What a process of the pipeline leaves alone
otherVars == <<scanVars, metaVars, apiVars, lruVars, usrVars>>
sideVars == <<otherVars, appended>>
\* What the other specifications leave alone
notScanVars == <<metaVars, apiVars, lruVars, usrVars, pipeVars>>
notMetaVars == <<scanVars, apiVars, lruVars, usrVars, pipeVars>>
notApiVars == <<scanVars, metaVars, lruVars, usrVars, pipeVars>>
notLruVars == <<scanVars, metaVars, apiVars, usrVars, pipeVars>>
notUsrVars == <<scanVars, metaVars, apiVars, lruVars, pipeVars>>
vars == <<scanVars, metaVars, apiVars, lruVars, usrVars, pipeVars>>

\* getLatestVideoUrls' variables while another specification runs
ScanParked ==
  /\ scanPc = "parked" /\ scanList = <<>> /\ scanKnown = {} /\ scanBad = {}
  /\ scanAll = FALSE /\ startIndex = 0 /\ newVideoIds = <<>> /\ scanRequests = <<>>

\* A dimension the info json does not give (width == null)
NoDim == 0
\* reduce's initial accumulator, and find's undefined
NoThumb == [id |-> "none", width |-> NoDim, height |-> NoDim]
\* channelFromDisk has not returned
NoNames == [avatar |-> <<>>, banner |-> <<>>, banner_uncropped |-> <<>>]

\* fetchMetaForChannel's variables while another specification runs
MetaParked ==
  /\ metaPc = "parked" /\ metaThumbs = <<>> /\ metaBanner = NoThumb /\ metaFetchQ = <<>>
  /\ metaTemp = {} /\ metaDir = {} /\ metaMoves = {} /\ metaFailure = "none"
  /\ metaReg = FALSE /\ metaChannel = NoNames

\* The cache's variables while another specification runs
UsrParked ==
  usrDb = <<>> /\ usrReq = <<>> /\ usrCount = 0 /\ usrMade = {} /\ usrLast = <<>>

LruParked ==
  /\ lruPc = "parked" /\ lruMax = 0 /\ lruCache = <<>> /\ lruUsed = <<>> /\ lruClock = 0
  /\ lruLast = <<>>

\* No request answered yet
NoRequest == [route |-> <<"none">>, method |-> "none", cookie |-> "none", chan |-> "none",
              video |-> 0, answer |-> "none"]

\* The server's variables while another specification runs
ApiParked ==
  /\ apiPc = "parked" /\ apiUsers = FALSE /\ apiChannels = {} /\ apiVideos = {}
  /\ apiAdded = {} /\ apiLast = NoRequest

(***************************************************************************)
(* Playlist scanner                                                        *)
(***************************************************************************)

\* How many videos to fetch per yt-dlp call
YT_DLP_BATCH_SIZE == 100

Min(a, b) == IF a < b THEN a ELSE b

\* hasVideo(server, videoId): the catalog's answer
HasVideoIn(known, id) == id \in known

\* The loop leaving at the first known video in a full scan as well
BatchStopAtKnown(list, known, bad, all, lo, hi) ==
  LET stops == {p \in lo..hi : p \in bad \/ HasVideoIn(known, list[p])}
  IN IF stops = {} THEN hi + 1
     ELSE CHOOSE p \in stops : \A q \in stops : p <= q

\* for (const url of batchUrls) { ... } over items lo..hi of the list.
\* The loop leaves at the first item whose url does not parse (throw) or, in an
\* incremental scan, at the first known video (break); every unknown video
\* before that point has been pushed.
BatchStop(list, known, bad, all, lo, hi) ==
  LET stops == {p \in lo..hi : p \in bad \/ (~all /\ HasVideoIn(known, list[p]))}
  IN IF stops = {} THEN hi + 1
     ELSE CHOOSE p \in stops : \A q \in stops : p <= q

\* The loop passing over a url that does not parse
BatchLoopSkipsBad(list, known, bad, all, lo, hi, acc) ==
  LET stop == BatchStop(list, known, {}, all, lo, hi)
      kept == {p \in lo..(stop - 1) : p \notin bad /\ ~HasVideoIn(known, list[p])}
  IN [new |-> acc \o [i \in 1..Cardinality(kept) |->
                        list[CHOOSE p \in kept : Cardinality({q \in kept : q < p}) = i - 1]],
      err |-> FALSE]

\* Yields [new |-> newVideoIds after the loop, err |-> an unparseable url was met]
BatchLoop(list, known, bad, all, lo, hi, acc) ==
  LET stop == BatchStop(list, known, bad, all, lo, hi)
      unknown(id) == ~HasVideoIn(known, id)
  IN [new |-> acc \o SelectSeq(SubSeq(list, lo, stop - 1), unknown),
      err |-> stop <= hi /\ stop \in bad]

\* What the extraction tool prints for one call: the whole list when `all`,
\* else the items startIndex..endIndex that exist.
BatchLo(all, start) == IF all THEN 1 ELSE start
BatchHi(list, all, start) ==
  IF all THEN Len(list) ELSE Min(Len(list), start + YT_DLP_BATCH_SIZE - 1)
BatchLen(list, all, start) ==
  IF BatchHi(list, all, start) < BatchLo(all, start) THEN 0
  ELSE BatchHi(list, all, start) - BatchLo(all, start) + 1

\* The iteration without the break after a window that was not full
WindowStepNoShortStop(list, known, bad, all, start, acc) ==
  LET n    == BatchLen(list, all, start)
      loop == BatchLoop(list, known, bad, all, BatchLo(all, start), BatchHi(list, all, start), acc)
      end  == start + YT_DLP_BATCH_SIZE - 1
  IN IF n = 0 THEN [new |-> acc, start |-> start, done |-> TRUE, err |-> FALSE]
     ELSE IF loop.err THEN [new |-> loop.new, start |-> start, done |-> TRUE, err |-> TRUE]
     ELSE [new |-> loop.new, start |-> end + 1, done |-> all, err |-> FALSE]

\* One iteration of while (true): [new, start, done, err]
WindowStep(list, known, bad, all, start, acc) ==
  LET n    == BatchLen(list, all, start)
      loop == BatchLoop(list, known, bad, all, BatchLo(all, start), BatchHi(list, all, start), acc)
      end  == start + YT_DLP_BATCH_SIZE - 1
  IN IF n = 0 THEN [new |-> acc, start |-> start, done |-> TRUE, err |-> FALSE]
     ELSE IF loop.err THEN [new |-> loop.new, start |-> start, done |-> TRUE, err |-> TRUE]
     ELSE [new   |-> loop.new,
           start |-> end + 1,
           done  |-> (n # YT_DLP_BATCH_SIZE) \/ all,
           err   |-> FALSE]

\* The whole call, when the tool itself never fails: [ids, err]
RECURSIVE GetLatestVideoUrls(_, _, _, _, _, _)
GetLatestVideoUrls(list, known, bad, all, start, acc) ==
  LET w == WindowStep(list, known, bad, all, start, acc)
  IN IF w.err THEN [ids |-> <<>>, err |-> TRUE]
     ELSE IF w.done THEN [ids |-> w.new, err |-> FALSE]
     ELSE GetLatestVideoUrls(list, known, bad, all, w.start, w.new)

(***************************************************************************)
(* SpecScan: one call getLatestVideoUrls(server, channelId, all)           *)
(***************************************************************************)

\* Inputs: list lengths and positions within MaxEdge of the start of the list
\* and of the window boundary; at most MaxKnown known videos.
MaxEdge == 2
MaxKnown == 2

ScanLens == (0..MaxEdge) \cup ((YT_DLP_BATCH_SIZE - MaxEdge)..(YT_DLP_BATCH_SIZE + MaxEdge))
ScanPositions(n) == {p \in 1..n : p <= MaxEdge \/ p > YT_DLP_BATCH_SIZE - MaxEdge}

\* The pipeline's variables while SpecScan runs
NoAppends == [unseen |-> {}, seen |-> {}, late |-> {}]

PipeParked ==
  /\ appended = NoAppends
  /\ doc = [exists |-> FALSE, subscribing |-> <<>>, subscribed |-> <<>>, titles |-> {}]
  /\ mediaTemps = 0 /\ tempFiles = {} /\ channelDir = <<>> /\ videoDir = <<>>
  /\ catChannels = {} /\ catVideos = {}
  /\ pc = "parked" /\ status = doc /\ subbed = {} /\ channel = "none" /\ mode = "none"
  /\ updIdx = 0 /\ videoIds = <<>> /\ videoId = "none" /\ moveQueue = <<>>
  /\ runs = 0 /\ doc0 = doc /\ err = "none" /\ prevDone = FALSE /\ tempsAtStart = FALSE
  /\ docAtStart = doc /\ runDocTouched = FALSE /\ runTool = {} /\ runCatReqs = {}
  /\ attempted = {} /\ updated = {} /\ backfilled = {} /\ lastListing = {} /\ committed = {}

ScanInit ==
  /\ \E n \in ScanLens :
       /\ scanList = [i \in 1..n |-> i]
       /\ \E known \in SUBSET ScanPositions(n), bad \in SUBSET ScanPositions(n) :
            /\ Cardinality(known) <= MaxKnown
            /\ Cardinality(bad) <= 1
            /\ scanKnown = known
            /\ scanBad = bad
  /\ scanAll \in BOOLEAN
  /\ scanPc = "loop"
  /\ startIndex = 1
  /\ newVideoIds = <<>>
  /\ scanRequests = <<>>
  /\ PipeParked /\ MetaParked /\ ApiParked /\ LruParked /\ UsrParked

\* One iteration of while (true) in which the extraction tool exits normally
ScanWindow ==
  /\ scanPc = "loop"
  /\ LET w == WindowStep(scanList, scanKnown, scanBad, scanAll, startIndex, newVideoIds)
     IN /\ scanRequests' = Append(scanRequests,
                                  [start |-> BatchLo(scanAll, startIndex),
                                   items |-> BatchLen(scanList, scanAll, startIndex)])
        /\ newVideoIds' = w.new
        /\ startIndex' = w.start
        /\ scanPc' = IF w.err THEN "threw" ELSE IF w.done THEN "returned" ELSE "loop"
  /\ UNCHANGED <<scanList, scanKnown, scanBad, scanAll, notScanVars>>

\* execAsync rejects (the tool exits nonzero): the catch logs and rethrows
ScanToolFails ==
  /\ scanPc = "loop"
  /\ scanRequests' = Append(scanRequests,
                            [start |-> BatchLo(scanAll, startIndex), items |-> 0])
  /\ scanPc' = "threw"
  /\ UNCHANGED <<scanList, scanKnown, scanBad, scanAll, startIndex, newVideoIds, notScanVars>>

ScanNext == ScanWindow \/ ScanToolFails

SpecScan == ScanInit /\ [][ScanNext]_vars

\* Position of the first (newest) video of the list the catalog knows; 0 if none
FirstKnown ==
  IF \E p \in 1..Len(scanList) : scanList[p] \in scanKnown
  THEN CHOOSE p \in 1..Len(scanList) :
         /\ scanList[p] \in scanKnown
         /\ \A q \in 1..(p - 1) : scanList[q] \notin scanKnown
  ELSE 0

\* C3: when an incremental scan returns and the k-th item (newest first) is the
\* first one the catalog knows, the scan has returned exactly the k-1 ids before
\* it, and has requested no window that starts past position k.
C3_EarlyStop ==
  (scanPc = "returned" /\ ~scanAll /\ FirstKnown > 0) =>
     /\ newVideoIds = SubSeq(scanList, 1, FirstKnown - 1)
     /\ \A r \in 1..Len(scanRequests) : scanRequests[r].start <= FirstKnown

\* C18: in an incremental scan every window that was followed by another one
\* was full; after a window with fewer items than the batch size the scan has
\* ended; and the number of windows requested is at most one more than the
\* number of full windows the list holds.
C18_ShortWindowEndsScan ==
  ~scanAll =>
    /\ \A r \in 1..(Len(scanRequests) - 1) : scanRequests[r].items = YT_DLP_BATCH_SIZE
    /\ (scanRequests # <<>> /\ scanRequests[Len(scanRequests)].items < YT_DLP_BATCH_SIZE)
         => scanPc \in {"returned", "threw"}
    /\ Len(scanRequests) * YT_DLP_BATCH_SIZE <= Len(scanList) + YT_DLP_BATCH_SIZE

\* An incremental scan has returned after a full window and a short one
C18_ReturnedAfterShortWindow ==
  /\ ~scanAll /\ scanPc = "returned" /\ Len(scanRequests) = 2
  /\ scanRequests[2].items \in 1..(YT_DLP_BATCH_SIZE - 1)

\* C19: a full scan that has returned has made one request, for the whole
\* list, and has returned every id of the list the catalog does not know, in
\* the order of the list.
C19_FullBackfillOnePass ==
  (scanAll /\ scanPc = "returned") =>
    /\ scanRequests = << [start |-> 1, items |-> Len(scanList)] >>
    /\ newVideoIds = SelectSeq(scanList, LAMBDA id : id \notin scanKnown)

\* A full scan of more than one batch has returned ids listed after a known video
C19_PastKnownVideo ==
  /\ scanAll /\ scanPc = "returned"
  /\ Len(scanList) > YT_DLP_BATCH_SIZE
  /\ scanList[1] \in scanKnown
  /\ Len(newVideoIds) >= YT_DLP_BATCH_SIZE - MaxKnown

MaxRuns == 2
MaxListLen == 2

Channels == {"c1", "c2"}
NoChannel == "none"

\* Remote platform: c1 lists the videos 1..MaxListLen (newest first), c2 the
\* single video MaxListLen + 1.  The remote does not change.
Videos == 1..(MaxListLen + 1)
NoVideo == 0
RemoteList(c) == IF c = "c1" THEN [i \in 1..MaxListLen |-> i] ELSE <<MaxListLen + 1>>
ChannelOf(v) == IF v <= MaxListLen THEN "c1" ELSE "c2"

\* uploader_id of the channel's info json with the leading @ cut: c1's equals
\* its channel id, c2's is a handle.
ShortId(c) == IF c = "c1" THEN "c1" ELSE "handle2"

Range(f) == {f[i] : i \in DOMAIN f}

\* A set as a sequence, in a fixed order (the order readdir lists files in)
RECURSIVE SeqOf(_)
SeqOf(S) == IF S = {} THEN <<>>
            ELSE LET x == CHOOSE y \in S : TRUE IN <<x>> \o SeqOf(S \ {x})

\* File names are kept split at the dots: "data.json" is <<"data", "json">>
DataJson == <<"data", "json">>
VideoMp4 == <<"video", "mp4">>
VideoWebm == <<"video", "webm">>
NoFile == <<>>

\* f.endsWith('.' + e)
EndsWith(f, e) == Len(f) >= 2 /\ f[Len(f)] = e

\* nameExt(file); it throws on a name without a dot
NameExt(f) == [name |-> SubSeq(f, 1, Len(f) - 1), ext |-> f[Len(f)]]

NoDir == [exists |-> FALSE, files |-> {}]
Mkdir(d) == [d EXCEPT !.exists = TRUE]

\* What the extraction tool can leave in the staging directory when it exits 0
ToolListings ==
  { {<<"t", "info", "json">>, <<"t", "mp4">>, <<"t", "webp">>},
    {<<"t", "info", "json">>, <<"t", "webm">>, <<"t", "jpg">>, <<"t", "en", "vtt">>},
    {<<"t", "info", "json">>, <<"t", "mp4">>, <<"t", "webm">>, <<"t", "jpg">>},
    {<<"t", "info", "json">>, <<"t", "mp4">>},
    {<<"t", "info", "json">>, <<"t", "mp4">>, <<"t", "jpg">>, <<"t", "description">>},
    {<<"t", "mp4">>, <<"t", "jpg">>, <<"t", "en", "vtt">>} }

(***************************************************************************)
(* addVideoIfNotExists: validation and commit plan of a staged download    *)
(***************************************************************************)

JsonFiles(files) == {f \in files : EndsWith(f, "json")}
MediaFiles(files) == {f \in files : EndsWith(f, "webm") \/ EndsWith(f, "mp4")}
ThumbFiles(files) ==
  {f \in files : EndsWith(f, "png") \/ EndsWith(f, "webp") \/ EndsWith(f, "jpg") \/ EndsWith(f, "gif")}
SubFiles(files) == {f \in files : EndsWith(f, "vtt")}

\* The checks without the last one, the count of the files
StagedErrorNoCount(files) ==
  IF Cardinality(JsonFiles(files)) # 1 THEN "json"
  ELSE IF Cardinality(MediaFiles(files)) # 1 THEN "video"
  ELSE IF Cardinality(ThumbFiles(files)) # 1 THEN "thumb"
  ELSE "ok"

\* The four checks, in the order the code makes them; "ok" when all pass
StagedError(files) ==
  IF Cardinality(JsonFiles(files)) # 1 THEN "json"
  ELSE IF Cardinality(MediaFiles(files)) # 1 THEN "video"
  ELSE IF Cardinality(ThumbFiles(files)) # 1 THEN "thumb"
  ELSE IF Cardinality(files) # Cardinality(SubFiles(files)) + 3 THEN "unexpected"
  ELSE "ok"

\* 'subs.' + sub.split('.').slice(-2).join('.')
SubDest(f) == <<"subs">> \o SubSeq(f, IF Len(f) >= 2 THEN Len(f) - 1 ELSE 1, Len(f))

\* The moves of a validated listing, in order: <<source, destination>>
MovePlan(files) ==
  LET json  == CHOOSE f \in JsonFiles(files) : TRUE
      video == CHOOSE f \in MediaFiles(files) : TRUE
      thumb == CHOOSE f \in ThumbFiles(files) : TRUE
      subs  == SeqOf(SubFiles(files))
  IN <<  <<json, DataJson>>,
         <<video, <<"video", NameExt(video).ext>> >>,
         <<thumb, <<"thumb", NameExt(thumb).ext>> >>  >>
     \o [i \in 1..Len(subs) |-> <<subs[i], SubDest(subs[i])>>]

\* The destinations of a plan
PlanDests(files) == {MovePlan(files)[i][2] : i \in 1..Len(MovePlan(files))}

\* fs.existsSync(video.mp4) || fs.existsSync(video.webm), and data.json
VideoFileExists(files) == VideoMp4 \in files \/ VideoWebm \in files
MetadataExists(files) == DataJson \in files

\* The branches with a directory holding one of the two files downloaded afresh
DirBranchRepair(files) ==
  IF MetadataExists(files) /\ VideoFileExists(files) THEN "present" ELSE "download"

\* The branches with a complete directory downloaded again
DirBranchRedownload(files) ==
  IF MetadataExists(files) /\ ~VideoFileExists(files) THEN "metadataOnly"
  ELSE IF ~MetadataExists(files) /\ VideoFileExists(files) THEN "videoOnly"
  ELSE "download"

\* The branch addVideoIfNotExists takes on the permanent directory
DirBranch(files) ==
  IF MetadataExists(files) /\ ~VideoFileExists(files) THEN "metadataOnly"
  ELSE IF ~MetadataExists(files) /\ VideoFileExists(files) THEN "videoOnly"
  ELSE IF ~MetadataExists(files) /\ ~VideoFileExists(files) THEN "download"
  ELSE "present"

(***************************************************************************)
(* scan.ts: records read back from the permanent directories               *)
(***************************************************************************)

DiskVids(files) == {f \in files : f = VideoMp4 \/ f = VideoWebm}
DiskThumbs(files) == {f \in files : Len(f) >= 2 /\ NameExt(f).name = <<"thumb">>}
DiskSubs(files) ==
  {f \in files : Len(f) >= 3 /\ NameExt(f).ext = "vtt" /\ f[1] = "subs"}

\* videoFromDisk: "ok", or what stops it
VideoFromDiskError(files) ==
  IF Cardinality(DiskVids(files)) # 1 THEN "novideo"
  ELSE IF DataJson \notin files THEN "null"
  ELSE IF Cardinality(DiskThumbs(files)) > 1 THEN "thumbs"
  ELSE "ok"

\* A record that assumes video.mp4 and nothing else
VideoFromDiskAssumed(c, v, files) ==
  [video_id |-> v, channel_id |-> c, video_filename |-> VideoMp4,
   thumb_filename |-> NoFile, subtitles |-> {}]

VideoFromDisk(c, v, files) ==
  [video_id |-> v,
   channel_id |-> c,
   video_filename |-> CHOOSE f \in DiskVids(files) : TRUE,
   thumb_filename |-> IF DiskThumbs(files) = {} THEN NoFile
                      ELSE CHOOSE f \in DiskThumbs(files) : TRUE,
   subtitles |-> {SubSeq(NameExt(f).name, 2, Len(f) - 1) : f \in DiskSubs(files)}]

AvatarPng == <<"avatar", "png">>
AvatarJpg == <<"avatar", "jpg">>
BannerPng == <<"banner", "png">>
BannerJpg == <<"banner", "jpg">>
BannerUncroppedPng == <<"banner_uncropped", "png">>
BannerUncroppedJpg == <<"banner_uncropped", "jpg">>

\* fsp.readdir(dir): the files in an order the file system chooses
Readdir(files) ==
  {s \in [1..Cardinality(files) -> files] : \A f \in files : \E i \in DOMAIN s : s[i] = f}

\* contents.find(f => f === a || f === b) ?? null
FindFile(contents, names) ==
  IF \E i \in DOMAIN contents : contents[i] \in names
  THEN contents[CHOOSE i \in DOMAIN contents :
                  /\ contents[i] \in names
                  /\ \A j \in 1..(i - 1) : contents[j] \notin names]
  ELSE NoFile

\* contents.find(f => f === 'banner_uncropped.png' || 'banner_uncropped.jpg') ?? null:
\* the right operand of || is a non-empty string, so the callback is truthy for
\* every f and find returns the first entry
FindBannerUncropped(contents) ==
  IF contents = <<>> THEN NoFile ELSE contents[1]

\* channelFromDisk; it throws when data.json cannot be read
ChannelFromDisk(c, files) ==
  [channel_id |-> c, short_id |-> ShortId(c)]

(***************************************************************************)
(* The catalog behind /public-api                                          *)
(***************************************************************************)

\* GET /public-api/has-video: isVideoInDb
HasVideo(rows, v) == \E r \in rows : r.video_id = v
KnownIds(rows) == {r.video_id : r \in rows}

\* GET /public-api/has-channel: getChannelByShortId(channelId) != null
HasChannel(rows, id) == \E r \in rows : r.short_id = id

\* getChannelById(channel_id) != null
GetChannelById(rows, id) == \E r \in rows : r.channel_id = id

AddVideoAnswerNoUnique(channels, videos, video) ==
  IF ~GetChannelById(channels, video.channel_id) THEN "400" ELSE "ok"

\* POST /public-api/add-video: "ok", or the status it answers with
AddVideoAnswer(channels, videos, video) ==
  IF ~GetChannelById(channels, video.channel_id) THEN "400"
  ELSE IF HasVideo(videos, video.video_id) THEN "409"
  ELSE "ok"

\* The client's `result !== true` on the body of add-video and add-channel
\* ("ok" stands for the body `true`)
ResultIsTrue(answer) == answer = "ok"

\* addChannelStmt: INSERT ... ON CONFLICT(channel_id) DO UPDATE SET each column
\* to the new value unless that is null or ''
Coalesce(new, old) == IF new # "" THEN new ELSE old
AddChannelRows(rows, ch) ==
  IF \E r \in rows : r.channel_id = ch.channel_id
  THEN {IF r.channel_id = ch.channel_id
        THEN [r EXCEPT !.short_id = Coalesce(ch.short_id, r.short_id)]
        ELSE r : r \in rows}
  ELSE rows \cup {ch}

(***************************************************************************)
(* get-channel-meta.ts: fetchMetaForChannel                                *)
(***************************************************************************)

\* contents.thumbnails.find(t => t.id === id)
Find(thumbs, id) ==
  IF \E i \in DOMAIN thumbs : thumbs[i].id = id
  THEN thumbs[CHOOSE i \in DOMAIN thumbs :
                /\ thumbs[i].id = id
                /\ \A j \in 1..(i - 1) : thumbs[j].id # id]
  ELSE NoThumb

\* t.width / t.height <= 2; with no height the quotient is NaN and the test is false
RatioAtMostTwo(t) == t.height # NoDim /\ t.width <= 2 * t.height

BannerStepNarrowest(acc, t) ==
  IF t.width = NoDim \/ RatioAtMostTwo(t) THEN acc
  ELSE IF acc = NoThumb THEN t
  ELSE IF t.width < acc.width THEN t
  ELSE acc

\* The callback of contents.thumbnails.reduce
BannerStep(acc, t) ==
  IF t.width = NoDim \/ RatioAtMostTwo(t) THEN acc
  ELSE IF acc = NoThumb THEN t
  ELSE IF t.width < acc.width THEN acc
  ELSE t

RECURSIVE BannerReduce(_, _)
BannerReduce(thumbs, acc) ==
  IF thumbs = <<>> THEN acc
  ELSE BannerReduce(Tail(thumbs), BannerStep(acc, Head(thumbs)))

\* let banner
Banner(thumbs) == BannerReduce(thumbs, NoThumb)

\* const imageMimeToExt
ImageMimeToExt ==
  ("image/jpeg" :> "jpg") @@ ("image/jpg" :> "jpg") @@ ("image/png" :> "png") @@
  ("image/gif" :> "gif") @@ ("image/webp" :> "webp") @@ ("image/svg+xml" :> "svg")

\* response.headers.get('content-type') as its ';'-separated parts, <<>> for null
NoHeader == <<>>
ContentTypes ==
  {NoHeader, <<"image/jpeg">>, <<"image/png", "charset=binary">>,
   <<"text/html", "charset=utf-8">>}
Responses == [ok : BOOLEAN, contentType : ContentTypes]

\* contentType?.split(';')[0].trim()
MimeType(contentType) ==
  IF contentType = NoHeader THEN "undefined" ELSE Head(contentType)

\* The response is not a success, or its type is none of imageMimeToExt's
Refused(resp) == ~resp.ok \/ MimeType(resp.contentType) \notin DOMAIN ImageMimeToExt

FetchToAnyType(resp, basename) ==
  IF ~resp.ok THEN [err |-> "http", name |-> NoFile]
  ELSE IF MimeType(resp.contentType) \notin DOMAIN ImageMimeToExt
  THEN [err |-> "none", name |-> <<basename, "bin">>]
  ELSE [err |-> "none", name |-> <<basename, ImageMimeToExt[MimeType(resp.contentType)]>>]

\* fetchTo: the file name written, or why it threw
FetchTo(resp, basename) ==
  IF ~resp.ok THEN [err |-> "http", name |-> NoFile]
  ELSE IF MimeType(resp.contentType) \notin DOMAIN ImageMimeToExt
  THEN [err |-> "mime", name |-> NoFile]
  ELSE [err |-> "none", name |-> <<basename, ImageMimeToExt[MimeType(resp.contentType)]>>]

\* The one file --write-info-json leaves in tempDir
InfoJson == <<"channel", "info", "json">>

\* move(source, dest): the name the file gets in <mediaDir>/<channelId>
MetaDest(f) == IF f = InfoJson THEN DataJson ELSE f

(***************************************************************************)
(* SpecMeta: one call of fetchMetaForChannel for a channel without         *)
(* data.json, then the rest of addChannelIfNotExists                       *)
(***************************************************************************)

MaxThumbs == 3

Thumbs ==
  {[id |-> "avatar_uncropped", width |-> 100, height |-> 100],
   [id |-> "banner_uncropped", width |-> 400, height |-> 225],
   [id |-> "1", width |-> 300, height |-> 100],
   [id |-> "2", width |-> 200, height |-> 50],
   [id |-> "3", width |-> 200, height |-> 100],
   [id |-> "4", width |-> NoDim, height |-> NoDim],
   [id |-> "5", width |-> 300, height |-> 60],
   [id |-> "6", width |-> 500, height |-> NoDim]}

\* Lists of distinct thumbnails
ThumbLists ==
  UNION {{s \in [1..n -> Thumbs] : \A i, j \in 1..n : i # j => s[i] # s[j]} :
         n \in 0..MaxThumbs}

MetaInit ==
  /\ metaPc = "spawn"
  /\ metaThumbs \in ThumbLists
  /\ metaBanner = NoThumb /\ metaFetchQ = <<>>
  /\ metaTemp = {} /\ metaDir = {} /\ metaMoves = {}
  /\ metaFailure = "none" /\ metaReg = FALSE /\ metaChannel = NoNames
  /\ PipeParked /\ ScanParked /\ ApiParked /\ LruParked /\ UsrParked

\* spawnSync exits 0 and leaves the info json; the thumbnails are picked
MetaSpawn ==
  /\ metaPc = "spawn"
  /\ metaTemp' = {InfoJson}
  /\ metaBanner' = Banner(metaThumbs)
  /\ metaFetchQ' =
       (IF Find(metaThumbs, "avatar_uncropped") # NoThumb THEN <<"avatar">> ELSE <<>>)
       \o (IF Find(metaThumbs, "banner_uncropped") # NoThumb
           THEN <<"banner_uncropped">> ELSE <<>>)
       \o (IF Banner(metaThumbs) # NoThumb THEN <<"banner">> ELSE <<>>)
  /\ metaPc' = "fetch"
  /\ UNCHANGED <<metaThumbs, metaDir, metaMoves, metaFailure, metaReg, metaChannel,
                 notMetaVars>>

\* result.error, a nonzero exit status, or not exactly one .json file: throw;
\* `using` removes tempDir
MetaSpawnFails ==
  /\ metaPc = "spawn"
  /\ \E why \in {"error", "exit", "files"} : metaFailure' = why
  /\ metaPc' = "threw"
  /\ UNCHANGED <<metaThumbs, metaBanner, metaFetchQ, metaTemp, metaDir, metaMoves, metaReg, metaChannel,
                 notMetaVars>>

\* One `await fetchTo(...)`
MetaFetch ==
  /\ metaPc = "fetch" /\ metaFetchQ # <<>>
  /\ \E resp \in Responses :
       LET r == FetchTo(resp, Head(metaFetchQ))
       IN /\ metaFailure' = IF ~resp.ok THEN "http"
                            ELSE IF Refused(resp) THEN "mime" ELSE metaFailure
          /\ IF r.err # "none"
             THEN /\ metaPc' = "threw"
                  /\ metaTemp' = {}
                  /\ UNCHANGED metaFetchQ
             ELSE /\ metaTemp' = metaTemp \cup {r.name}
                  /\ metaFetchQ' = Tail(metaFetchQ)
                  /\ UNCHANGED metaPc
  /\ UNCHANGED <<metaThumbs, metaBanner, metaDir, metaMoves, metaReg, metaChannel,
                 notMetaVars>>

\* The moves are started, none awaited
MetaMove ==
  /\ metaPc = "fetch" /\ metaFetchQ = <<>>
  /\ metaMoves' = metaTemp
  /\ metaPc' = "dispose"
  /\ UNCHANGED <<metaThumbs, metaBanner, metaFetchQ, metaTemp, metaDir, metaFailure, metaReg, metaChannel,
                 notMetaVars>>

\* A started rename gets done before tempDir is removed
MetaMoveLands ==
  /\ metaPc = "dispose"
  /\ \E f \in metaMoves :
       /\ metaMoves' = metaMoves \ {f}
       /\ metaTemp' = metaTemp \ {f}
       /\ metaDir' = metaDir \cup {MetaDest(f)}
  /\ UNCHANGED <<metaPc, metaThumbs, metaBanner, metaFetchQ, metaFailure, metaReg, metaChannel,
                 notMetaVars>>

\* The function returns: `using` removes tempDir and what is still in it
MetaDispose ==
  /\ metaPc = "dispose"
  /\ metaTemp' = {} /\ metaMoves' = {}
  /\ metaPc' = "register"
  /\ UNCHANGED <<metaThumbs, metaBanner, metaFetchQ, metaDir, metaFailure, metaReg, metaChannel,
                 notMetaVars>>

\* channelFromDisk reads data.json (it throws without it), add-channel answers true
MetaRegister ==
  /\ metaPc = "register"
  /\ IF DataJson \in metaDir
     THEN /\ metaReg' = TRUE /\ metaPc' = "registered"
          /\ \E contents \in Readdir(metaDir) :
               metaChannel' = [avatar |-> FindFile(contents, {AvatarPng, AvatarJpg}),
                               banner |-> FindFile(contents, {BannerPng, BannerJpg}),
                               banner_uncropped |-> FindBannerUncropped(contents)]
     ELSE metaReg' = metaReg /\ metaPc' = "threw" /\ UNCHANGED metaChannel
  /\ UNCHANGED <<metaThumbs, metaBanner, metaFetchQ, metaTemp, metaDir, metaMoves,
                 metaFailure, notMetaVars>>

MetaNext ==
  \/ MetaSpawn
  \/ MetaSpawnFails
  \/ MetaFetch
  \/ MetaMove
  \/ MetaMoveLands
  \/ MetaDispose
  \/ MetaRegister

SpecMeta == MetaInit /\ [][MetaNext]_vars

\* C21: when the extraction tool fails or exits nonzero, or a picked asset's
\* response is not a success or has a content type imageMimeToExt does not know,
\* no file has been moved into the channel's directory and the channel is not
\* registered.
C21_FailedResolutionLeavesNothing ==
  metaFailure # "none" => metaDir = {} /\ ~metaReg

\* The third asset is refused for its content type after two were fetched
C21_LastAssetRefused ==
  /\ metaPc = "threw" /\ metaFailure = "mime"
  /\ metaFetchQ = <<"banner">>
  /\ Find(metaThumbs, "avatar_uncropped") # NoThumb
  /\ Find(metaThumbs, "banner_uncropped") # NoThumb

\* The thumbnails have been picked in this call
Picked ==
  \/ metaPc \in {"fetch", "dispose", "register", "registered"}
  \/ metaPc = "threw" /\ metaFailure \in {"none", "http", "mime"}

\* Thumbnails of the list with a width and an aspect ratio above 2:1
WideThumbs(thumbs) ==
  {t \in Range(thumbs) : t.width # NoDim /\ t.height # NoDim /\ t.width > 2 * t.height}

\* Thumbnails of the list with a width for which width / height <= 2 is false
NotNarrowThumbs(thumbs) ==
  {t \in Range(thumbs) : t.width # NoDim /\ (t.height = NoDim \/ t.width > 2 * t.height)}

\* C28 as stated: the banner is the narrowest of the thumbnails that have a width
\* and an aspect ratio above 2:1, and there is none when no thumbnail qualifies.
C28_BannerIsNarrowest ==
  Picked =>
    IF WideThumbs(metaThumbs) = {} THEN metaBanner = NoThumb
    ELSE /\ metaBanner \in WideThumbs(metaThumbs)
         /\ \A t \in WideThumbs(metaThumbs) : metaBanner.width <= t.width

\* C28 amended: the banner is the widest of the thumbnails that have a width and
\* for which width / height <= 2 is false, the last listed of the equally wide
\* ones; a thumbnail without width or of ratio at most 2:1 is never the banner,
\* and there is none when no thumbnail qualifies.
C28_BannerIsWidest ==
  Picked =>
    IF NotNarrowThumbs(metaThumbs) = {} THEN metaBanner = NoThumb
    ELSE /\ metaBanner \in NotNarrowThumbs(metaThumbs)
         /\ \A t \in NotNarrowThumbs(metaThumbs) : t.width <= metaBanner.width
         /\ \A i, j \in DOMAIN metaThumbs :
              /\ metaThumbs[i] = metaBanner
              /\ metaThumbs[j] \in NotNarrowThumbs(metaThumbs)
              /\ metaThumbs[j].width = metaBanner.width
              => j <= i

\* Two thumbnails qualify, the wider one is listed first and is the banner
C28_WiderListedFirst ==
  /\ Picked
  /\ \E i, j \in DOMAIN metaThumbs :
       /\ i < j
       /\ {metaThumbs[i], metaThumbs[j]} \subseteq WideThumbs(metaThumbs)
       /\ metaThumbs[j].width < metaThumbs[i].width
       /\ metaBanner = metaThumbs[i]

\* C31: when fetchMetaForChannel has returned normally, data.json is in the
\* channel's directory and no started move was cut off by the removal of the
\* temporary directory, so the channelFromDisk that follows does not throw.
C31_MetadataInPlaceOnReturn ==
  /\ metaPc = "register" => DataJson \in metaDir
  /\ ~(metaPc = "threw" /\ metaFailure = "none")

\* C34: the record channelFromDisk returns has a banner_uncropped_filename
\* exactly when the directory holds banner_uncropped.png or banner_uncropped.jpg,
\* and then it names that file.
C34_BannerUncroppedOnlyIfPresent ==
  metaPc = "registered" =>
    IF metaDir \cap {BannerUncroppedPng, BannerUncroppedJpg} = {}
    THEN metaChannel.banner_uncropped = NoFile
    ELSE metaChannel.banner_uncropped \in {BannerUncroppedPng, BannerUncroppedJpg}

(***************************************************************************)
(* SpecApi: the server (part_005) answering one request at a time          *)
(***************************************************************************)

\* req.path as its segments
PublicApi(name) == <<"public-api", name>>
SetupPaths == {<<"setup">>, <<"api", "setup">>}

\* req.path.startsWith('/api'), req.path.startsWith('/public-api/')
StartsWithApi(path) == path # <<>> /\ Head(path) = "api"
StartsWithPublicApi(path) == Len(path) >= 2 /\ Head(path) = "public-api"

Cookies == {"none", "valid"}

\* The auth middleware: "next", or the answer it sends itself
Middleware(path, method, users, cookie) ==
  IF ~users /\ path \notin SetupPaths
  THEN IF StartsWithApi(path) \/ method # "GET"
       THEN "403 Setup required" ELSE "redirect /setup"
  ELSE IF path = <<"login">> \/ StartsWithPublicApi(path) \/ path \in SetupPaths THEN "next"
  ELSE IF ~(cookie = "valid" /\ users)
  THEN IF StartsWithApi(path) \/ method # "GET"
       THEN "403 Authentication required" ELSE "redirect /login"
  ELSE "next"

\* Answers the middleware sends without calling the handler
Gated == {"403 Setup required", "redirect /setup", "403 Authentication required",
          "redirect /login"}

\* A field the request body lacks
NoField == "null"
ApiVideoIds == {1, 2}
ApiVideoBodies == [video_id : ApiVideoIds, channel_id : Channels, title : {"a", "b", NoField}]
ApiChannelBodies == [channel_id : Channels, short_id : {"c1", "handle2", "", NoField}]

ApiInit ==
  /\ apiPc = "serving"
  /\ apiUsers \in BOOLEAN
  /\ apiChannels = {} /\ apiVideos = {} /\ apiAdded = {}
  /\ apiLast = NoRequest
  /\ PipeParked /\ ScanParked /\ MetaParked /\ LruParked /\ UsrParked

\* What one request leaves: the request and its answer
Answered(path, method, cookie, chan, video, answer) ==
  /\ apiLast' = [route |-> path, method |-> method, cookie |-> cookie, chan |-> chan,
                 video |-> video, answer |-> answer]
  /\ UNCHANGED <<apiPc, notApiVars>>

\* GET /public-api/healthcheck
ApiHealthcheck ==
  /\ apiPc = "serving"
  /\ \E cookie \in Cookies :
       LET gate == Middleware(PublicApi("healthcheck"), "GET", apiUsers, cookie)
       IN Answered(PublicApi("healthcheck"), "GET", cookie, NoChannel, NoVideo,
                   IF gate # "next" THEN gate ELSE "true")
  /\ UNCHANGED <<apiUsers, apiChannels, apiVideos, apiAdded>>

\* GET /public-api/has-video
ApiHasVideo ==
  /\ apiPc = "serving"
  /\ \E cookie \in Cookies, v \in ApiVideoIds :
       LET gate == Middleware(PublicApi("has-video"), "GET", apiUsers, cookie)
       IN Answered(PublicApi("has-video"), "GET", cookie, NoChannel, v,
                   IF gate # "next" THEN gate
                   ELSE IF HasVideo(apiVideos, v) THEN "true" ELSE "false")
  /\ UNCHANGED <<apiUsers, apiChannels, apiVideos, apiAdded>>

\* GET /public-api/has-channel
ApiHasChannel ==
  /\ apiPc = "serving"
  /\ \E cookie \in Cookies, id \in Channels \cup {"handle2"} :
       LET gate == Middleware(PublicApi("has-channel"), "GET", apiUsers, cookie)
       IN Answered(PublicApi("has-channel"), "GET", cookie, id, NoVideo,
                   IF gate # "next" THEN gate
                   ELSE IF HasChannel(apiChannels, id) THEN "true" ELSE "false")
  /\ UNCHANGED <<apiUsers, apiChannels, apiVideos, apiAdded>>

\* POST /public-api/add-video
ApiAddVideo ==
  /\ apiPc = "serving"
  /\ \E cookie \in Cookies, video \in ApiVideoBodies :
       LET gate == Middleware(PublicApi("add-video"), "POST", apiUsers, cookie)
           answer == IF gate # "next" THEN gate
                     ELSE IF video.title = NoField THEN "400"
                     ELSE AddVideoAnswer(apiChannels, apiVideos, video)
       IN /\ Answered(PublicApi("add-video"), "POST", cookie, video.channel_id,
                      video.video_id, answer)
          /\ apiVideos' = IF answer = "ok" THEN apiVideos \cup {video} ELSE apiVideos
  /\ UNCHANGED <<apiUsers, apiChannels, apiAdded>>

\* POST /public-api/add-channel
ApiAddChannel ==
  /\ apiPc = "serving"
  /\ \E cookie \in Cookies, ch \in ApiChannelBodies :
       LET gate == Middleware(PublicApi("add-channel"), "POST", apiUsers, cookie)
           answer == IF gate # "next" THEN gate
                     ELSE IF ch.short_id = NoField THEN "400"
                     ELSE "ok"
       IN /\ Answered(PublicApi("add-channel"), "POST", cookie, ch.channel_id,
                      NoVideo, answer)
          /\ apiChannels' = IF answer = "ok" THEN AddChannelRows(apiChannels, ch)
                            ELSE apiChannels
          /\ apiAdded' = IF answer = "ok" THEN apiAdded \cup {ch.channel_id} ELSE apiAdded
  /\ UNCHANGED <<apiUsers, apiVideos>>

\* POST /public-api/login
ApiLogin ==
  /\ apiPc = "serving"
  /\ \E cookie \in Cookies, known \in BOOLEAN :
       LET gate == Middleware(PublicApi("login"), "POST", apiUsers, cookie)
       IN Answered(PublicApi("login"), "POST", cookie, NoChannel, NoVideo,
                   IF gate # "next" THEN gate
                   ELSE IF known /\ apiUsers THEN "token" ELSE "401")
  /\ UNCHANGED <<apiUsers, apiChannels, apiVideos, apiAdded>>

\* POST /api/setup
ApiSetup ==
  /\ apiPc = "serving"
  /\ \E cookie \in Cookies :
       LET gate == Middleware(<<"api", "setup">>, "POST", apiUsers, cookie)
           answer == IF gate # "next" THEN gate
                     ELSE IF apiUsers THEN "403 Setup has already been completed"
                     ELSE "created"
       IN /\ Answered(<<"api", "setup">>, "POST", cookie, NoChannel, NoVideo, answer)
          /\ apiUsers' = (apiUsers \/ answer = "created")
  /\ UNCHANGED <<apiChannels, apiVideos, apiAdded>>

\* GET /api/videos, one of the routes behind the cookie
ApiVideos ==
  /\ apiPc = "serving"
  /\ \E cookie \in Cookies :
       LET gate == Middleware(<<"api", "videos">>, "GET", apiUsers, cookie)
       IN Answered(<<"api", "videos">>, "GET", cookie, NoChannel, NoVideo,
                   IF gate # "next" THEN gate ELSE "videos")
  /\ UNCHANGED <<apiUsers, apiChannels, apiVideos, apiAdded>>

\* GET /, one of the pages behind the cookie
ApiHome ==
  /\ apiPc = "serving"
  /\ \E cookie \in Cookies :
       LET gate == Middleware(<<>>, "GET", apiUsers, cookie)
       IN Answered(<<>>, "GET", cookie, NoChannel, NoVideo,
                   IF gate # "next" THEN gate ELSE "page")
  /\ UNCHANGED <<apiUsers, apiChannels, apiVideos, apiAdded>>

ApiNext ==
  \/ ApiHealthcheck
  \/ ApiHasVideo
  \/ ApiHasChannel
  \/ ApiAddVideo
  \/ ApiAddChannel
  \/ ApiLogin
  \/ ApiSetup
  \/ ApiVideos
  \/ ApiHome

SpecApi == ApiInit /\ [][ApiNext]_vars

\* C22: an add-video request for a video_id the catalog already has, or for a
\* channel_id it does not have, is not answered `true` (so the client throws),
\* and it adds no row and changes no row of the catalog.
C22_AddVideoViolationsReported ==
  [][apiLast'.route = PublicApi("add-video")
     /\ (HasVideo(apiVideos, apiLast'.video) \/ ~GetChannelById(apiChannels, apiLast'.chan))
     => /\ ~ResultIsTrue(apiLast'.answer)
        /\ apiVideos' = apiVideos
        /\ apiChannels' = apiChannels]_vars

\* A second add-video for a registered video was answered 409, and one for an
\* unregistered channel 400 would be; here the duplicate
C22_DuplicateRefused ==
  /\ apiLast.route = PublicApi("add-video")
  /\ apiLast.answer = "409"
  /\ HasVideo(apiVideos, apiLast.video)
  /\ GetChannelById(apiChannels, apiLast.chan)

\* C23: an add-channel request for a channel_id the catalog already has is not
\* answered `true`, and the channels table is left as it was.
C23_DuplicateChannelReported ==
  [][apiLast'.route = PublicApi("add-channel")
     /\ (\E r \in apiChannels : r.channel_id = apiLast'.chan)
     => /\ ~ResultIsTrue(apiLast'.answer)
        /\ apiChannels' = apiChannels]_vars

\* C27: a request to a /public-api/ route that carries no auth cookie is never
\* answered by the auth middleware with a rejection or a redirect, whatever the
\* state of the server.
C27_PublicApiNeverGated ==
  StartsWithPublicApi(apiLast.route) /\ apiLast.cookie = "none"
  => apiLast.answer \notin Gated

\* C29: has-channel asked with a channel_id answers true exactly when add-channel
\* has succeeded for that channel_id.
C29_HasChannelAgreesWithAdded ==
  /\ apiLast.route = PublicApi("has-channel")
  /\ apiLast.chan \in Channels
  /\ apiLast.answer \in {"true", "false"}
  => (apiLast.answer = "true" <=> apiLast.chan \in apiAdded)

(***************************************************************************)
(* util.ts: LRUCache over a Map, which iterates in insertion order         *)
(***************************************************************************)

\* A value get() answers with for a key that is not there
Undefined == "undefined"

MapKeys(m) == {m[i].key : i \in DOMAIN m}
MapHas(m, k) == k \in MapKeys(m)
MapGet(m, k) ==
  IF MapHas(m, k) THEN m[CHOOSE i \in DOMAIN m : m[i].key = k].value ELSE Undefined
MapDelete(m, k) == SelectSeq(m, LAMBDA e : e.key # k)
\* Map.prototype.set: a key that is there keeps its place
MapSet(m, k, v) ==
  IF MapHas(m, k)
  THEN [i \in DOMAIN m |-> IF m[i].key = k THEN [key |-> k, value |-> v] ELSE m[i]]
  ELSE Append(m, [key |-> k, value |-> v])

\* A get that leaves the order alone
CacheGetNoTouch(m, k) == m

\* LRUCache.get: the cache after the call (the value is MapGet of the cache before)
CacheGet(m, k) ==
  IF MapGet(m, k) # Undefined THEN MapSet(MapDelete(m, k), k, MapGet(m, k)) ELSE m

\* A set that never evicts
CacheSetNoEvict(m, max, k, v) == MapSet(MapDelete(m, k), k, v)

\* LRUCache.set
CacheSet(m, max, k, v) ==
  MapSet(IF MapHas(m, k) THEN MapDelete(m, k)
         ELSE IF Len(m) >= max THEN MapDelete(m, m[1].key)
         ELSE m,
         k, v)

(***************************************************************************)
(* SpecLru: calls on one LRUCache                                          *)
(***************************************************************************)

MaxSize == 2
MaxCalls == 5
LruKeys == {"k1", "k2", "k3"}
LruValues == {"v", Undefined}

LruInit ==
  /\ lruPc = "ready"
  /\ lruMax \in 1..MaxSize
  /\ lruCache = <<>>
  /\ lruUsed = [k \in LruKeys |-> 0]
  /\ lruClock = 0
  /\ lruLast = [op |-> "new", key |-> "none", had |-> FALSE, full |-> FALSE,
                result |-> Undefined, removed |-> {}]
  /\ PipeParked /\ ScanParked /\ MetaParked /\ ApiParked /\ UsrParked

\* What a call leaves behind for the properties
Called(op, k, result) ==
  /\ lruClock' = lruClock + 1
  /\ lruLast' = [op |-> op, key |-> k, had |-> MapHas(lruCache, k),
                 full |-> Len(lruCache) >= lruMax, result |-> result,
                 removed |-> MapKeys(lruCache) \ MapKeys(lruCache')]
  /\ UNCHANGED <<lruPc, lruMax, notLruVars>>

LruSet ==
  /\ lruPc = "ready" /\ lruClock < MaxCalls
  /\ \E k \in LruKeys, v \in LruValues :
       /\ lruCache' = CacheSet(lruCache, lruMax, k, v)
       /\ lruUsed' = [lruUsed EXCEPT ![k] = lruClock + 1]
       /\ Called("set", k, Undefined)

LruGet ==
  /\ lruPc = "ready" /\ lruClock < MaxCalls
  /\ \E k \in LruKeys :
       /\ lruCache' = CacheGet(lruCache, k)
       /\ lruUsed' = IF MapGet(lruCache, k) # Undefined
                     THEN [lruUsed EXCEPT ![k] = lruClock + 1] ELSE lruUsed
       /\ Called("get", k, MapGet(lruCache, k))

LruDelete ==
  /\ lruPc = "ready" /\ lruClock < MaxCalls
  /\ \E k \in LruKeys :
       /\ lruCache' = MapDelete(lruCache, k)
       /\ UNCHANGED lruUsed
       /\ Called("delete", k, Undefined)

LruClear ==
  /\ lruPc = "ready" /\ lruClock < MaxCalls
  /\ lruCache' = <<>>
  /\ UNCHANGED lruUsed
  /\ Called("clear", "none", Undefined)

LruNext ==
  \/ LruSet
  \/ LruGet
  \/ LruDelete
  \/ LruClear

SpecLru == LruInit /\ [][LruNext]_vars

\* C35: the cache never holds more entries than maxSize; a set on a key that
\* is in the cache removes no other entry, and a set of a new key into a full
\* cache removes exactly one entry.
C35_SizeWithinCapacity ==
  /\ Len(lruCache) <= lruMax
  /\ Cardinality(MapKeys(lruCache)) = Len(lruCache)
  /\ lruLast.op = "set" =>
       /\ lruLast.key \in MapKeys(lruCache)
       /\ lruLast.had => lruLast.removed = {}
       /\ (~lruLast.had /\ lruLast.full) => Cardinality(lruLast.removed) = 1
       /\ (~lruLast.had /\ ~lruLast.full) => lruLast.removed = {}

\* A new key was set into a full cache of two entries
C35_SetIntoFullCache ==
  /\ lruLast.op = "set" /\ ~lruLast.had /\ lruLast.full
  /\ lruMax = 2 /\ Len(lruCache) = 2

\* C36: the entry a set removes is one whose last use (a set, or a get that
\* returned a value) is the oldest of all the entries the cache held.
C36_EvictsLeastRecentlyUsed ==
  [][lruLast'.op = "set" =>
       \A e \in MapKeys(lruCache) \ MapKeys(lruCache') :
         \A k \in MapKeys(lruCache) : lruUsed[e] <= lruUsed[k]]_vars

\* The key set first was read afterwards, and the set of a third key removed
\* the other one
C36_ReadKeySurvives ==
  /\ lruLast.op = "set" /\ lruLast.removed # {}
  /\ \E k \in MapKeys(lruCache) \ {lruLast.key} :
       \A e \in lruLast.removed : lruUsed[e] > 0 /\ lruUsed[k] > lruUsed[e]
                                  /\ lruCache[1].key = k /\ lruCache[1].value # Undefined

(***************************************************************************)
(* user-db.ts and the server's account and content routes                  *)
(***************************************************************************)

\* Permissions: allowedChannels is 'all' (all = TRUE) or a set of channel ids
Perm(all, channels, createUser) ==
  [all |-> all, channels |-> channels, createUser |-> createUser]
NoPerm == Perm(FALSE, {}, FALSE)
\* What POST /api/setup passes to addUser
AdminPerm == Perm(TRUE, {}, TRUE)

\* The media catalog the server reads
MediaChannels == {"UC1", "UC2"}
ShortIds == [one |-> "UC1", two |-> "UC2"]
MediaVideos ==
  [v1 |-> [channel_id |-> "UC1", thumb_filename |-> "null"],
   v2 |-> [channel_id |-> "UC2", thumb_filename |-> "v2.jpg"]]
IsChannelInDb(c) == c \in MediaChannels
GetVideoById(id) == IF id \in DOMAIN MediaVideos THEN {id} ELSE {}
GetChannelByShortId(s) == IF s \in DOMAIN ShortIds THEN {ShortIds[s]} ELSE {}
GetVideosByChannel(c) == {v \in DOMAIN MediaVideos : MediaVideos[v].channel_id = c}
GetRecentVideosForChannels(p) ==
  IF p.all THEN DOMAIN MediaVideos
  ELSE {v \in DOMAIN MediaVideos : MediaVideos[v].channel_id \in p.channels}
\* nameExt(param).name of a <<name, ext>> parameter
NameOf(param) == param[1]

\* canUserViewChannel, on the permissions getUserPermissions returns
CanUserViewChannel(p, c) == p.all \/ c \in p.channels

\* A route that lets every requested grant through
GrantRefusedNever(requested, current) == "none"

\* POST /api/add-user: the refusal of a grant the creator may not make
GrantRefused(requested, current) ==
  IF requested.all
  THEN IF ~current.all THEN "403 Only users with all-channel access can grant all-channel access"
       ELSE "none"
  ELSE IF ~current.all /\ ~(requested.channels \subseteq current.channels)
       THEN "403 You don't have permission to grant access to channel"
       ELSE "none"

\* addUser up to its await: the error it throws, "none" when it goes on to hash
AddUserThrows(db, username, p) ==
  IF username \in DOMAIN db THEN "User already exists"
  ELSE IF ~p.all /\ \E c \in p.channels : ~IsChannelInDb(c) THEN "Channel does not exist"
  ELSE "none"

\* The catch blocks of the two routes
Caught(error) ==
  IF error = "User already exists" THEN "409 Username already exists"
  ELSE IF error = "Channel does not exist" THEN "400 Channel does not exist"
  ELSE "500 Internal server error"

(***************************************************************************)
(* SpecUsers: requests on a server started with no account                 *)
(***************************************************************************)

MaxRequests == 3
Slots == {1, 2}
Usernames == {"ann", "bob", "eve"}
SetupNames == {"ann", "bob"}
\* "" stands for a missing or empty field
NameInputs == {"bob", "eve", ""}
RequestedPerms ==
  {Perm(TRUE, {}, TRUE), Perm(FALSE, {"UC1"}, TRUE),
   Perm(FALSE, {"UC1", "UC2"}, FALSE), Perm(FALSE, {"UC9"}, FALSE)}
VideoParams == {<<"v1", "mp4">>, <<"v2", "jpg">>, <<"v9", "mp4">>}
ShortIdParams == {"one", "two", "nine"}

Idle == [pc |-> "idle", route |-> "none", by |-> "none", username |-> "none", perms |-> NoPerm]
NoAnswer == [route |-> "none", by |-> "none", status |-> "none", served |-> {}]

\* The request takes the first slot that holds no request
FreeSlot(slot) ==
  /\ usrReq[slot].pc = "idle"
  /\ \A t \in Slots : usrReq[t].pc = "idle" => slot <= t

UsrInit ==
  /\ usrDb = <<>>
  /\ usrReq = [s \in Slots |-> Idle]
  /\ usrCount = 0
  /\ usrMade = {}
  /\ usrLast = NoAnswer
  /\ PipeParked /\ ScanParked /\ MetaParked /\ ApiParked /\ LruParked

Answer(route, by, answer, served) ==
  usrLast' = [route |-> route, by |-> by, status |-> answer, served |-> served]

\* The handler's run up to res.json or to the await inside addUser
Arrived(slot, route, by, username, p, refusal) ==
  /\ usrCount' = usrCount + 1
  /\ IF refusal # "none"
     THEN /\ Answer(route, by, refusal, {})
          /\ UNCHANGED usrReq
     ELSE IF AddUserThrows(usrDb, username, p) # "none"
     THEN /\ Answer(route, by, Caught(AddUserThrows(usrDb, username, p)), {})
          /\ UNCHANGED usrReq
     ELSE /\ usrReq' = [usrReq EXCEPT ![slot] =
                          [pc |-> "hashing", route |-> route, by |-> by,
                           username |-> username, perms |-> p]]
          /\ Answer(route, by, "pending", {})
  /\ UNCHANGED <<usrDb, usrMade, notUsrVars>>

\* POST /api/setup; the middleware lets it through without a cookie
UsrSetup ==
  /\ usrCount < MaxRequests
  /\ \E slot \in Slots, username \in SetupNames \cup {""} :
       /\ FreeSlot(slot)
       /\ Arrived(slot, "setup", "none", username, AdminPerm,
                  IF DOMAIN usrDb # {} THEN "403 Setup has already been completed"
                  ELSE IF username = "" THEN "400 Username and password are required"
                  ELSE "none")

\* POST /api/add-user from a user the middleware authenticated
UsrAddUser ==
  /\ usrCount < MaxRequests
  /\ \E slot \in Slots, by \in DOMAIN usrDb, username \in NameInputs, p \in RequestedPerms :
       /\ FreeSlot(slot)
       /\ Arrived(slot, "add-user", by, username, p,
                  IF ~usrDb[by].createUser THEN "403 Not authorized to create users"
                  ELSE IF username = ""
                    THEN "400 Username, password, allowedChannels, and createUser are required"
                  ELSE GrantRefused(p, usrDb[by]))

\* The password hash is there: addUserStmt.run, then the route's answer
UsrHashed ==
  \E slot \in Slots :
    LET r == usrReq[slot] IN
    /\ r.pc = "hashing"
    /\ usrReq' = [usrReq EXCEPT ![slot] = Idle]
    /\ IF r.username \in DOMAIN usrDb
       THEN /\ Answer(r.route, r.by, Caught("UNIQUE constraint failed"), {})
            /\ UNCHANGED <<usrDb, usrMade>>
       ELSE /\ usrDb' = [u \in DOMAIN usrDb \cup {r.username} |->
                           IF u = r.username THEN r.perms ELSE usrDb[u]]
            /\ usrMade' = usrMade \cup
                 {[username |-> r.username, route |-> r.route, by |-> r.by, perms |-> r.perms,
                   creator |-> IF r.by \in DOMAIN usrDb THEN usrDb[r.by] ELSE NoPerm]}
            /\ Answer(r.route, r.by, "200", {})
    /\ UNCHANGED <<usrCount, notUsrVars>>

\* A route that answers at once and writes nothing
Served(route, by, answer, videos) ==
  /\ Answer(route, by, answer, {MediaVideos[v].channel_id : v \in videos})
  /\ UNCHANGED <<usrDb, usrReq, usrCount, usrMade, notUsrVars>>

\* GET /v/:video_id
UsrVideoPage ==
  \E by \in DOMAIN usrDb, param \in VideoParams :
    LET video == GetVideoById(NameOf(param)) IN
    IF video = {} THEN Served("/v", by, "404 Video not found", {})
    ELSE IF \E v \in video : ~CanUserViewChannel(usrDb[by], MediaVideos[v].channel_id)
    THEN Served("/v", by, "not allowed", {})
    ELSE Served("/v", by, "200", video)

\* GET /c/:short_id
UsrChannelPage ==
  \E by \in DOMAIN usrDb, param \in ShortIdParams :
    LET found == GetChannelByShortId(param) IN
    IF found = {} THEN Served("/c", by, "404 Channel not found", {})
    ELSE IF \E c \in found : ~CanUserViewChannel(usrDb[by], c)
    THEN Served("/c", by, "not allowed", {})
    ELSE Served("/c", by, "200", UNION {GetVideosByChannel(c) : c \in found})

\* GET /api/videos
UsrApiVideos ==
  \E by \in DOMAIN usrDb :
    Served("/api/videos", by, "200", GetRecentVideosForChannels(usrDb[by]))

\* GET /api/channel/:short_id/videos
UsrApiChannelVideos ==
  \E by \in DOMAIN usrDb, param \in ShortIdParams :
    LET found == GetChannelByShortId(param) IN
    IF found = {} THEN Served("/api/channel", by, "404 Channel not found", {})
    ELSE IF \E c \in found : ~CanUserViewChannel(usrDb[by], c)
    THEN Served("/api/channel", by, "403 Access denied", {})
    ELSE Served("/api/channel", by, "200", UNION {GetVideosByChannel(c) : c \in found})

\* GET /media/videos/:video_id
UsrMediaVideo ==
  \E by \in DOMAIN usrDb, param \in VideoParams :
    LET video == GetVideoById(NameOf(param)) IN
    IF video = {} THEN Served("/media/videos", by, "404 Video not found", {})
    ELSE Served("/media/videos", by, "200", video)

\* GET /media/thumbs/:video_id
UsrMediaThumb ==
  \E by \in DOMAIN usrDb, param \in VideoParams :
    LET video == GetVideoById(NameOf(param)) IN
    IF video = {} \/ \E v \in video : MediaVideos[v].thumb_filename = "null"
    THEN Served("/media/thumbs", by, "404 not found", {})
    ELSE Served("/media/thumbs", by, "200", video)

UsrNext ==
  \/ UsrSetup
  \/ UsrAddUser
  \/ UsrHashed
  \/ UsrVideoPage
  \/ UsrChannelPage
  \/ UsrApiVideos
  \/ UsrApiChannelVideos
  \/ UsrMediaVideo
  \/ UsrMediaThumb

SpecUsers == UsrInit /\ [][UsrNext]_vars

\* C37: over any interleaving of POST /api/setup requests at most one of them
\* creates an administrator.
C37_SetupCreatesAtMostOne ==
  Cardinality({m \in usrMade : m.route = "setup"}) <= 1

\* The permissions p grant nothing that the permissions q do not
AtMost(p, q) ==
  /\ p.createUser => q.createUser
  /\ p.all => q.all
  /\ (~p.all /\ ~q.all) => p.channels \subseteq q.channels

Refusals403 ==
  {"403 Not authorized to create users",
   "403 Only users with all-channel access can grant all-channel access",
   "403 You don't have permission to grant access to channel"}

C39_AllowlistEnforced ==
  (usrLast.by \in DOMAIN usrDb /\ ~usrDb[usrLast.by].all)
    => usrLast.served \subseteq usrDb[usrLast.by].channels

(***************************************************************************)
(* Spec: processes of downloader/fetch-videos.ts                           *)
(***************************************************************************)

\* No extraction has run in this process yet
NoListing == [video |-> NoVideo, files |-> {}]

\* channelOk: the channels has-channel or add-channel has answered true for
NoReqs == [health |-> FALSE, hasChannel |-> {}, addChannel |-> {}, channelOk |-> {},
           hasVideo |-> {}, addVideo |-> {}]
NoTool == [meta |-> {}, list |-> {}, video |-> {}]

\* status = { subscribing: [], subscribed: [], titles: {} }
EmptyDoc == [exists |-> TRUE, subscribing |-> <<>>, subscribed |-> <<>>, titles |-> {}]
NoDocFile == [exists |-> FALSE, subscribing |-> <<>>, subscribed |-> <<>>, titles |-> {}]

Disjoint(d) == Range(d.subscribing) \cap Range(d.subscribed) = {}

\* Lists of distinct channels
ChannelLists ==
  {<<>>} \cup {<<c>> : c \in Channels}
         \cup {l \in {<<c, d>> : c \in Channels, d \in Channels} : l[1] # l[2]}

\* Documents the first process can find: none, or two lists of distinct channels
\* holding at most MaxEntries entries together (so one channel may be in both),
\* with a pending title for every subscribing channel.
MaxEntries == 2
InitDocs ==
  {NoDocFile} \cup
  {d \in {[exists |-> TRUE, subscribing |-> s, subscribed |-> t, titles |-> tt] :
             s \in ChannelLists, t \in ChannelLists, tt \in SUBSET Channels} :
     /\ Len(d.subscribing) + Len(d.subscribed) <= MaxEntries
     /\ d.titles = Range(d.subscribing)}

\* What earlier runs can have left for a subscribed channel: its metadata, and
\* the videos of its list but the newest one, committed and cataloged.
OldVideos(d) == {v \in Videos : ChannelOf(v) \in Range(d.subscribed)
                                /\ \E i \in 2..Len(RemoteList(ChannelOf(v))) :
                                     RemoteList(ChannelOf(v))[i] = v}

\* The remote has published `fresh` videos since: all of OldVideos but the
\* fresh - 1 newest of each list are in place
OldSet(d, fresh) == {v \in OldVideos(d) :
                      \E i \in (fresh + 1)..Len(RemoteList(ChannelOf(v))) :
                        RemoteList(ChannelOf(v))[i] = v}
OldFiles == {DataJson, VideoMp4, <<"thumb", "jpg">>}

PipeInit ==
  /\ doc \in InitDocs
  /\ doc0 = doc
  /\ mediaTemps = 0
  /\ tempFiles = {}
  /\ channelDir = [c \in Channels |->
                     IF c \in Range(doc.subscribed)
                     THEN [exists |-> TRUE, files |-> {DataJson}]
                     ELSE NoDir]
  \* at most one video not in the catalog has a media file and no data.json
  /\ \E fresh \in {f \in 1..MaxListLen : f = 1 \/ OldSet(doc, f) # OldSet(doc, f - 1)} :
       /\ committed = OldSet(doc, fresh)
       /\ catVideos = {VideoFromDisk(ChannelOf(v), v, OldFiles) : v \in committed}
  /\ \E orphan \in {NoVideo} \cup {RemoteList(c)[1] : c \in Channels} :
       videoDir = [v \in Videos |->
                     IF v \in committed THEN [exists |-> TRUE, files |-> OldFiles]
                     ELSE IF v = orphan THEN [exists |-> TRUE, files |-> {VideoMp4}]
                     ELSE NoDir]
  /\ catChannels = {ChannelFromDisk(c, {DataJson}) : c \in Range(doc.subscribed)}
  /\ pc = "idle"
  /\ status = NoDocFile
  /\ subbed = {}
  /\ channel = NoChannel
  /\ mode = "none"
  /\ updIdx = 0
  /\ videoIds = <<>>
  /\ videoId = NoVideo
  /\ moveQueue = <<>>
  /\ runs = 0
  /\ err = "none"
  /\ prevDone = FALSE
  /\ tempsAtStart = FALSE
  /\ docAtStart = doc
  /\ runDocTouched = FALSE
  /\ runTool = NoTool
  /\ runCatReqs = NoReqs
  /\ attempted = {}
  /\ updated = {}
  /\ backfilled = {}
  /\ lastListing = NoListing
  /\ appended = NoAppends

Init == PipeInit /\ ScanParked /\ MetaParked /\ ApiParked /\ LruParked /\ UsrParked

Stopped == pc \in {"idle", "done", "failed", "killed", "refused", "exited"}
Running == pc \notin {"idle", "done", "failed", "killed", "refused", "exited", "parked"}

\* A fresh process: nothing of the last one's memory is left
FreshProcess ==
  /\ runs' = runs + 1
  /\ prevDone' = (pc = "done")
  /\ docAtStart' = doc
  /\ tempsAtStart' = (mediaTemps > 0)
  /\ subbed' = {}
  /\ channel' = NoChannel
  /\ mode' = "none"
  /\ updIdx' = 0
  /\ videoIds' = <<>>
  /\ videoId' = NoVideo
  /\ moveQueue' = <<>>
  /\ runTool' = NoTool
  /\ attempted' = {}
  /\ updated' = {}
  /\ backfilled' = {}
  /\ lastListing' = NoListing
  /\ appended' = NoAppends
  /\ UNCHANGED <<otherVars, tempFiles, channelDir, videoDir, catChannels, catVideos,
                 mediaTemps, doc0, committed>>

\* A status that is changed in memory and never written
WriteStatusLost(s) == UNCHANGED doc

\* writeStatus(): the document is replaced by the serialized status
WriteStatus(s) == doc' = s

\* Lines 193-197: a tmp-localtube- entry in the media root: process.exit(1)
StartRefused ==
  /\ Stopped /\ runs < MaxRuns
  /\ mediaTemps > 0
  /\ FreshProcess
  /\ pc' = "refused"
  /\ err' = "temps"
  /\ status' = NoDocFile
  /\ runDocTouched' = FALSE
  /\ runCatReqs' = NoReqs
  /\ UNCHANGED doc

\* The start without the look for tmp-localtube- entries
BootUnguarded(up) ==
  /\ Stopped /\ runs < MaxRuns
  /\ FreshProcess
  /\ IF doc.exists
     THEN /\ status' = doc
          /\ UNCHANGED doc
     ELSE /\ status' = EmptyDoc
          /\ WriteStatus(status')
  /\ runDocTouched' = TRUE
  /\ runCatReqs' = [NoReqs EXCEPT !.health = TRUE]
  /\ pc' = IF up THEN "drain" ELSE "exited"
  /\ err' = IF up THEN "none" ELSE "server"

\* Lines 206-228: load (or create) the document, then the healthcheck
Boot(up) ==
  /\ Stopped /\ runs < MaxRuns
  /\ mediaTemps = 0
  /\ FreshProcess
  /\ IF doc.exists
     THEN /\ status' = doc
          /\ UNCHANGED doc
     ELSE /\ status' = EmptyDoc
          /\ WriteStatus(status')
  /\ runDocTouched' = TRUE
  /\ runCatReqs' = [NoReqs EXCEPT !.health = TRUE]
  /\ pc' = IF up THEN "drain" ELSE "exited"
  /\ err' = IF up THEN "none" ELSE "server"

Start == Boot(TRUE)
StartServerDown == Boot(FALSE)

DisposedNot(n) == n

\* [Symbol.dispose] of getTemp(mediaDir): rmSync of the staging directory
Disposed(n) == n - 1

\* An error of one video caught and logged, the loop going on to the next video
ThrowSkipsVideo(reason) ==
  /\ pc' = IF pc \in {"addVideo", "spawn", "validate", "move", "fromDisk"}
           THEN "videoLoop" ELSE "failed"
  /\ err' = reason
  /\ mediaTemps' = IF pc \in {"spawn", "validate", "move"} THEN mediaTemps - 1 ELSE mediaTemps
  /\ tempFiles' = {}

\* An error that ends the process with the staging directory left behind
ThrowLeavesTemp(reason) ==
  /\ pc' = "failed"
  /\ err' = reason
  /\ UNCHANGED <<mediaTemps, tempFiles>>

\* An error thrown out of the top-level await ends the process; a `using`
\* staging directory is disposed of on the way out.
Throw(reason) ==
  /\ pc' = "failed"
  /\ err' = reason
  /\ mediaTemps' = IF pc \in {"spawn", "validate", "move"} THEN Disposed(mediaTemps)
                   ELSE mediaTemps
  /\ tempFiles' = {}

\* while (status.subscribing.length > 0) { const channel = status.subscribing[0]; ...
DrainHead ==
  /\ pc = "drain"
  /\ IF Len(status.subscribing) > 0
     THEN /\ channel' = status.subscribing[1]
          /\ mode' = "subscribe"
          /\ attempted' = attempted \cup {status.subscribing[1]}
          /\ UNCHANGED updated
          /\ pc' = "subscribe"
          /\ UNCHANGED updIdx
     ELSE /\ channel' = NoChannel
          /\ mode' = "none"
          /\ updIdx' = 1
          /\ pc' = "update"
          /\ UNCHANGED <<attempted, updated>>
  /\ UNCHANGED <<sideVars, worldVars, status, subbed, videoIds, videoId, moveQueue,
                 runs, doc0, err, prevDone, tempsAtStart, docAtStart, runDocTouched, runTool,
                 runCatReqs, backfilled, lastListing, committed>>

\* subscribe(): mkdir of the channel directory, then addChannelIfNotExists up to
\* the choice between fetching the metadata and reading it from disk
EnsureNextSkips(has, cached) == "scan"

\* addChannelIfNotExists: return, or register from the cached data.json, or
\* fetch the metadata first
EnsureNext(has, cached) ==
  IF has THEN "scan" ELSE IF cached THEN "addChannel" ELSE "fetchMeta"

SubscribeBegin ==
  /\ pc = "subscribe"
  /\ channelDir' = [channelDir EXCEPT ![channel] = Mkdir(@)]
  /\ \/ /\ runCatReqs' = [runCatReqs EXCEPT
                            !.hasChannel = @ \cup {channel},
                            !.channelOk = IF HasChannel(catChannels, channel)
                                          THEN @ \cup {channel} ELSE @]
        /\ pc' = EnsureNext(HasChannel(catChannels, channel),
                            DataJson \in channelDir[channel].files)
        /\ UNCHANGED <<err, mediaTemps, tempFiles>>
     \/ /\ runCatReqs' = [runCatReqs EXCEPT !.hasChannel = @ \cup {channel}]
        /\ Throw("catalog")
  /\ UNCHANGED <<sideVars, doc, videoDir, catChannels, catVideos,
                 status, subbed, channel, mode, updIdx, videoIds, videoId, moveQueue,
                 runs, doc0, prevDone, tempsAtStart, docAtStart, runDocTouched, runTool,
                 attempted, updated, backfilled, lastListing, committed>>

\* fetchMetaForChannel: the tool and the asset fetches in a temporary directory
\* outside the media root; on success the move of the info json to data.json is
\* started and not awaited before the temporary directory is removed, so it may
\* or may not have landed.  (The channel's image assets are left out here.)
FetchMeta ==
  /\ pc = "fetchMeta"
  /\ runTool' = [runTool EXCEPT !.meta = @ \cup {channel}]
  /\ \/ \E landed \in SUBSET {DataJson} :
          /\ channelDir' = [channelDir EXCEPT ![channel].files = @ \cup landed]
          /\ pc' = "addChannel"
          /\ UNCHANGED <<err, mediaTemps, tempFiles>>
     \/ /\ Throw("meta")
        /\ UNCHANGED channelDir
  /\ UNCHANGED <<sideVars, doc, videoDir, catChannels, catVideos,
                 status, subbed, channel, mode, updIdx, videoIds, videoId, moveQueue,
                 runs, doc0, prevDone, tempsAtStart, docAtStart, runDocTouched,
                 runCatReqs, attempted, updated, backfilled, lastListing, committed>>

\* addChannelIfNotExists, lines 260-271: channelFromDisk, POST add-channel
AddChannel ==
  /\ pc = "addChannel"
  /\ IF DataJson \notin channelDir[channel].files
     THEN /\ Throw("channelFromDisk")
          /\ UNCHANGED <<catChannels, runCatReqs>>
     ELSE \/ /\ runCatReqs' = [runCatReqs EXCEPT !.addChannel = @ \cup {channel},
                                                !.channelOk = @ \cup {channel}]
             /\ catChannels' = AddChannelRows(catChannels,
                                  ChannelFromDisk(channel, channelDir[channel].files))
             /\ pc' = "scan"
             /\ UNCHANGED <<err, mediaTemps, tempFiles>>
          \/ /\ runCatReqs' = [runCatReqs EXCEPT !.addChannel = @ \cup {channel}]
             /\ Throw("catalog")
             /\ UNCHANGED catChannels
  /\ UNCHANGED <<sideVars, doc, channelDir, videoDir, catVideos,
                 status, subbed, channel, mode, updIdx, videoIds, videoId, moveQueue,
                 runs, doc0, prevDone, tempsAtStart, docAtStart, runDocTouched, runTool,
                 attempted, updated, backfilled, lastListing, committed>>

\* subscribe() scanning the way updateExisting() does
AllForNever(m) == FALSE

\* The `all` argument: subscribe() passes true, updateExisting() false
AllFor(m) == m = "subscribe"

\* const videoIds = await getLatestVideoUrls(server, channelId, all)
Scan ==
  /\ pc = "scan"
  /\ runTool' = [runTool EXCEPT !.list = @ \cup {channel}]
  /\ \/ LET r == GetLatestVideoUrls(RemoteList(channel), KnownIds(catVideos), {},
                                    AllFor(mode), 1, <<>>)
        IN /\ videoIds' = r.ids
           /\ pc' = "videoLoop"
           /\ UNCHANGED <<err, mediaTemps, tempFiles>>
     \/ /\ Throw("scan")
        /\ UNCHANGED videoIds
  /\ UNCHANGED <<sideVars, doc, channelDir, videoDir, catChannels, catVideos,
                 status, subbed, channel, mode, updIdx, videoId, moveQueue,
                 runs, doc0, prevDone, tempsAtStart, docAtStart, runDocTouched,
                 runCatReqs, attempted, updated, backfilled, lastListing, committed>>

\* for (const videoId of videoIds): the next video, or the function returns
VideoLoop ==
  /\ pc = "videoLoop"
  /\ IF videoIds # <<>>
     THEN /\ videoId' = Head(videoIds)
          /\ videoIds' = Tail(videoIds)
          /\ pc' = "addVideo"
          /\ UNCHANGED <<updIdx, backfilled>>
     ELSE /\ videoId' = NoVideo
          /\ UNCHANGED videoIds
          /\ IF mode = "subscribe"
             THEN /\ pc' = "promote"
                  /\ backfilled' = backfilled \cup {channel}
                  /\ UNCHANGED updIdx
             ELSE /\ pc' = "update"
                  /\ updIdx' = updIdx + 1
                  /\ UNCHANGED backfilled
  /\ UNCHANGED <<sideVars, worldVars, status, subbed, channel, mode, moveQueue,
                 runs, doc0, err, prevDone, tempsAtStart, docAtStart, runDocTouched, runTool,
                 runCatReqs, attempted, updated, lastListing, committed>>

\* addVideoIfNotExists, lines 275-287: hasVideo, mkdir, the look at the
\* permanent directory
VideoCheck ==
  /\ pc = "addVideo"
  /\ runCatReqs' = [runCatReqs EXCEPT !.hasVideo = @ \cup {videoId}]
  /\ \/ /\ HasVideo(catVideos, videoId)
        /\ pc' = "videoLoop"
        /\ UNCHANGED <<err, mediaTemps, tempFiles, videoDir>>
     \/ /\ ~HasVideo(catVideos, videoId)
        /\ videoDir' = [videoDir EXCEPT ![videoId] = Mkdir(@)]
        /\ LET branch == DirBranch(videoDir[videoId].files)
           IN IF branch \in {"metadataOnly", "videoOnly"}
              THEN Throw("referential")
              ELSE /\ pc' = IF branch = "download" THEN "stage" ELSE "fromDisk"
                   /\ UNCHANGED <<err, mediaTemps, tempFiles>>
     \/ /\ Throw("catalog")
        /\ UNCHANGED videoDir
  /\ UNCHANGED <<sideVars, doc, channelDir, catChannels, catVideos,
                 status, subbed, channel, mode, updIdx, videoIds, videoId, moveQueue,
                 runs, doc0, prevDone, tempsAtStart, docAtStart, runDocTouched, runTool,
                 attempted, updated, backfilled, lastListing, committed>>

\* using tempDir = getTemp(mediaDir): mkdtemp of <mediaDir>/tmp-localtube-XXXXXX
MakeTemp ==
  /\ pc = "stage"
  /\ mediaTemps' = mediaTemps + 1
  /\ tempFiles' = {}
  /\ pc' = "spawn"
  /\ UNCHANGED <<sideVars, doc, channelDir, videoDir, catChannels, catVideos,
                 status, subbed, channel, mode, updIdx, videoIds, videoId, moveQueue, histVars>>

\* spawnSync(YT_DLP_PATH, ...) in the staging directory, lines 290-305
Spawn ==
  /\ pc = "spawn"
  /\ runTool' = [runTool EXCEPT !.video = @ \cup {videoId}]
  /\ \/ \E listing \in ToolListings :
          /\ tempFiles' = listing
          /\ lastListing' = [video |-> videoId, files |-> listing]
          /\ pc' = "validate"
          /\ UNCHANGED <<err, mediaTemps>>
     \/ /\ Throw("tool")
        /\ UNCHANGED lastListing
  /\ UNCHANGED <<sideVars, doc, channelDir, videoDir, catChannels, catVideos,
                 status, subbed, channel, mode, updIdx, videoIds, videoId, moveQueue,
                 runs, doc0, prevDone, tempsAtStart, docAtStart, runDocTouched,
                 runCatReqs, attempted, updated, backfilled, committed>>

\* Lines 305-323: the four checks of the staged files
Validate ==
  /\ pc = "validate"
  /\ IF StagedError(tempFiles) = "ok"
     THEN /\ moveQueue' = MovePlan(tempFiles)
          /\ pc' = "move"
          /\ UNCHANGED <<err, mediaTemps, tempFiles>>
     ELSE /\ Throw("integrity")
          /\ UNCHANGED moveQueue
  /\ UNCHANGED <<sideVars, doc, channelDir, videoDir, catChannels, catVideos,
                 status, subbed, channel, mode, updIdx, videoIds, videoId,
                 runs, doc0, prevDone, tempsAtStart, docAtStart, runDocTouched, runTool,
                 runCatReqs, attempted, updated, backfilled, lastListing, committed>>

\* await move(source, destination): rename (or, across devices, copy and
\* unlink); any other rename error is thrown
Move ==
  /\ pc = "move"
  /\ moveQueue # <<>>
  /\ \/ /\ tempFiles' = tempFiles \ {Head(moveQueue)[1]}
        /\ videoDir' = [videoDir EXCEPT ![videoId].files = @ \cup {Head(moveQueue)[2]}]
        /\ moveQueue' = Tail(moveQueue)
        /\ UNCHANGED <<pc, err, mediaTemps>>
     \/ /\ Throw("move")
        /\ UNCHANGED <<videoDir, moveQueue>>
  /\ UNCHANGED <<sideVars, doc, channelDir, catChannels, catVideos,
                 status, subbed, channel, mode, updIdx, videoIds, videoId,
                 runs, doc0, prevDone, tempsAtStart, docAtStart, runDocTouched, runTool,
                 runCatReqs, attempted, updated, backfilled, lastListing, committed>>

\* Lines 331-332: every move is done; leaving the block disposes of tempDir
CommitDone ==
  /\ pc = "move"
  /\ moveQueue = <<>>
  /\ mediaTemps' = Disposed(mediaTemps)
  /\ tempFiles' = {}
  /\ committed' = committed \cup {videoId}
  /\ pc' = "fromDisk"
  /\ UNCHANGED <<sideVars, doc, channelDir, videoDir, catChannels, catVideos,
                 status, subbed, channel, mode, updIdx, videoIds, videoId, moveQueue,
                 runs, doc0, err, prevDone, tempsAtStart, docAtStart, runDocTouched, runTool,
                 runCatReqs, attempted, updated, backfilled, lastListing>>

\* Lines 333-347: videoFromDisk of the permanent directory, POST add-video
FromDisk ==
  /\ pc = "fromDisk"
  /\ IF VideoFromDiskError(videoDir[videoId].files) # "ok"
     THEN /\ Throw("videoFromDisk")
          /\ UNCHANGED <<catVideos, runCatReqs>>
     ELSE LET video == VideoFromDisk(channel, videoId, videoDir[videoId].files)
          IN \/ /\ runCatReqs' = [runCatReqs EXCEPT !.addVideo = @ \cup {videoId}]
                /\ IF ResultIsTrue(AddVideoAnswer(catChannels, catVideos, video))
                   THEN /\ catVideos' = catVideos \cup {video}
                        /\ pc' = "videoLoop"
                        /\ UNCHANGED <<err, mediaTemps, tempFiles>>
                   ELSE /\ Throw("rejected")
                        /\ UNCHANGED catVideos
             \* malformed data.json, or the request fails
             \/ /\ Throw("catalog")
                /\ UNCHANGED <<catVideos, runCatReqs>>
  /\ UNCHANGED <<sideVars, doc, channelDir, videoDir, catChannels,
                 status, subbed, channel, mode, updIdx, videoIds, videoId, moveQueue,
                 runs, doc0, prevDone, tempsAtStart, docAtStart, runDocTouched, runTool,
                 attempted, updated, backfilled, lastListing, committed>>

\* The list with the channel left in
WithoutNothing(list, c) == list

\* status.subscribing.filter(id => id !== channel)
Without(list, c) == SelectSeq(list, LAMBDA id : id # c)

\* A test that finds the channel in no list
IncludesNever(list, c) == FALSE

\* list.includes(c)
Includes(list, c) == c \in Range(list)

\* A promotion that leaves the pending title in place
DropTitleKept(titles, c) == titles

\* A promotion that clears every pending title
DropTitleAll(titles, c) == {}

\* delete status.titles[channel]
DropTitle(titles, c) == titles \ {c}

\* A process that goes on with the document it holds in memory
ReadStatusCached(file, memory) == memory

\* readStatus(): the document as the file holds it now
ReadStatus(file, memory) == file

\* Lines 356-375: after subscribe(channel) has returned
Promote ==
  /\ pc = "promote"
  /\ runDocTouched' = TRUE
  /\ appended' = [appended EXCEPT !.unseen = {}, !.seen = @ \cup appended.unseen]
  /\ LET freshStatus == ReadStatus(doc, status)
         isInSubscribing == Includes(freshStatus.subscribing, channel)
         isInSubscribed == Includes(freshStatus.subscribed, channel)
     IN IF isInSubscribing /\ isInSubscribed
        THEN /\ Throw("both")
             /\ UNCHANGED <<doc, status, subbed>>
        ELSE /\ subbed' = subbed \cup {channel}
             /\ pc' = "drain"
             /\ UNCHANGED <<err, mediaTemps, tempFiles>>
             /\ IF ~isInSubscribing \/ isInSubscribed
                THEN /\ status' = freshStatus
                     /\ UNCHANGED doc
                ELSE /\ status' = [freshStatus EXCEPT
                                     !.subscribing = Without(@, channel),
                                     !.subscribed = Append(@, channel),
                                     !.titles = DropTitle(@, channel)]
                     /\ WriteStatus(status')
  /\ UNCHANGED <<otherVars, channelDir, videoDir, catChannels, catVideos,
                 channel, mode, updIdx, videoIds, videoId, moveQueue,
                 runs, doc0, prevDone, tempsAtStart, docAtStart, runTool,
                 runCatReqs, attempted, updated, backfilled, lastListing, committed>>

\* The test the other way round
SkipUpdateInverted(c, done) == c \notin done

\* if (subbed.has(channel)) continue;
SkipUpdate(c, done) == c \in done

\* for (const channel of status.subscribed) { if (subbed.has(channel)) continue;
\* await updateExisting(channel) } up to its hasChannel check
UpdateHead ==
  /\ pc = "update"
  /\ IF updIdx > Len(status.subscribed)
     THEN /\ pc' = "done"
          /\ channel' = NoChannel
          /\ mode' = "none"
          /\ UNCHANGED <<updIdx, attempted, updated, runCatReqs, err, mediaTemps, tempFiles>>
     ELSE IF SkipUpdate(status.subscribed[updIdx], subbed)
     THEN /\ updIdx' = updIdx + 1
          /\ UNCHANGED <<pc, channel, mode, attempted, updated, runCatReqs, err, mediaTemps, tempFiles>>
     ELSE /\ channel' = status.subscribed[updIdx]
          /\ mode' = "update"
          /\ attempted' = attempted \cup {status.subscribed[updIdx]}
          /\ updated' = updated \cup {status.subscribed[updIdx]}
          /\ UNCHANGED updIdx
          /\ \/ /\ runCatReqs' = [runCatReqs EXCEPT
                                  !.hasChannel = @ \cup {status.subscribed[updIdx]},
                                  !.channelOk = IF HasChannel(catChannels, status.subscribed[updIdx])
                                                THEN @ \cup {status.subscribed[updIdx]} ELSE @]
                /\ IF HasChannel(catChannels, status.subscribed[updIdx])
                   THEN /\ pc' = "scan"
                        /\ UNCHANGED <<err, mediaTemps, tempFiles>>
                   ELSE Throw("notInServer")
             \/ /\ runCatReqs' = [runCatReqs EXCEPT
                                  !.hasChannel = @ \cup {status.subscribed[updIdx]}]
                /\ Throw("catalog")
  /\ UNCHANGED <<sideVars, doc, channelDir, videoDir, catChannels, catVideos,
                 status, subbed, videoIds, videoId, moveQueue,
                 runs, doc0, prevDone, tempsAtStart, docAtStart, runDocTouched, runTool,
                 backfilled, lastListing, committed>>

\* The process is terminated from outside: nothing is cleaned up
Kill ==
  /\ Running
  /\ pc' = "killed"
  /\ err' = "killed"
  /\ UNCHANGED <<sideVars, worldVars, status, subbed, channel, mode, updIdx, videoIds,
                 videoId, moveQueue, runs, doc0, prevDone, tempsAtStart, docAtStart,
                 runDocTouched, runTool, runCatReqs, attempted, updated, backfilled, lastListing, committed>>

\* The operator deletes the tmp-localtube- directories, as the startup message asks
OperatorCleanup ==
  /\ Stopped
  /\ mediaTemps > 0
  /\ mediaTemps' = 0
  /\ tempFiles' = {}
  /\ UNCHANGED <<sideVars, doc, channelDir, videoDir, catChannels, catVideos, procVars, histVars>>

Next ==
  \/ StartRefused
  \/ Start
  \/ StartServerDown
  \/ DrainHead
  \/ SubscribeBegin
  \/ FetchMeta
  \/ AddChannel
  \/ Scan
  \/ VideoLoop
  \/ VideoCheck
  \/ MakeTemp
  \/ Spawn
  \/ Validate
  \/ Move
  \/ CommitDone
  \/ FromDisk
  \/ Promote
  \/ UpdateHead
  \/ Kill
  \/ OperatorCleanup

Spec == Init /\ [][Next]_vars

\* The steps of a running process: each follows when the call it awaits returns
ProcessStep ==
  \/ DrainHead
  \/ SubscribeBegin
  \/ FetchMeta
  \/ AddChannel
  \/ Scan
  \/ VideoLoop
  \/ VideoCheck
  \/ MakeTemp
  \/ Spawn
  \/ Validate
  \/ Move
  \/ CommitDone
  \/ FromDisk
  \/ Promote
  \/ UpdateHead

\* Spec with a process that is never left waiting for ever
SpecFair == Spec /\ WF_vars(ProcessStep)

(***************************************************************************)
(* SpecAppend: the processes, with the server adding subscriptions         *)
(***************************************************************************)

MaxAppends == 1

\* The loop `while (status.subscribing.length > 0)` has not ended yet
InDrainLoop == pc = "drain" \/ mode = "subscribe"

\* The add-subscription action of the server while a process runs: a channel
\* that is in neither list is appended to `subscribing`, with its title.
DocAppended ==
  /\ Running
  /\ doc.exists
  /\ Cardinality(appended.unseen \cup appended.seen \cup appended.late) < MaxAppends
  /\ \E o \in Channels :
       /\ ~Includes(doc.subscribing, o) /\ ~Includes(doc.subscribed, o)
       /\ doc' = [doc EXCEPT !.subscribing = Append(@, o), !.titles = @ \cup {o}]
       /\ appended' = IF InDrainLoop THEN [appended EXCEPT !.unseen = @ \cup {o}]
                                     ELSE [appended EXCEPT !.late = @ \cup {o}]
  /\ UNCHANGED <<otherVars, mediaTemps, tempFiles, channelDir, videoDir, catChannels,
                 catVideos, procVars, histVars>>

NextAppend ==
  \/ StartRefused
  \/ Start
  \/ StartServerDown
  \/ DrainHead
  \/ SubscribeBegin
  \/ FetchMeta
  \/ AddChannel
  \/ Scan
  \/ VideoLoop
  \/ VideoCheck
  \/ MakeTemp
  \/ Spawn
  \/ Validate
  \/ Move
  \/ CommitDone
  \/ FromDisk
  \/ Promote
  \/ UpdateHead
  \/ Kill
  \/ OperatorCleanup
  \/ DocAppended

SpecAppend == Init /\ [][NextAppend]_vars

(***************************************************************************)
(* SpecEdit: the processes, with another writer of the subscriptions file  *)
(***************************************************************************)

\* What another writer of the file (the server's subscription endpoint, the
\* operator) can make of the document d while channel c is being backfilled:
\* c taken out of `subscribing`, c put into `subscribed`, both, or another
\* channel added to `subscribing`.
EditedDocs(d, c) ==
  LET removed == [d EXCEPT !.subscribing = Without(@, c), !.titles = @ \ {c}]
      added   == [d EXCEPT !.subscribed = IF Includes(@, c) THEN @ ELSE Append(@, c)]
      moved   == [removed EXCEPT !.subscribed = IF Includes(@, c) THEN @ ELSE Append(@, c)]
      more    == {[d EXCEPT !.subscribing = Append(@, o), !.titles = @ \cup {o}] :
                    o \in {x \in Channels : ~Includes(d.subscribing, x)}}
  IN ({removed, added, moved} \cup more) \ {d}

\* The file is rewritten while a backfill runs.  The process reads the file
\* only at readStatus() after subscribe() has returned, so the edit is placed
\* there; at most one edit is made before a process first writes the file.
DocEdited ==
  /\ pc = "promote"
  /\ doc = docAtStart
  /\ \E d \in EditedDocs(doc, channel) : doc' = d
  /\ UNCHANGED <<sideVars, mediaTemps, tempFiles, channelDir, videoDir, catChannels,
                 catVideos, procVars, histVars>>

NextEdit ==
  \/ StartRefused
  \/ Start
  \/ StartServerDown
  \/ DrainHead
  \/ SubscribeBegin
  \/ FetchMeta
  \/ AddChannel
  \/ Scan
  \/ VideoLoop
  \/ VideoCheck
  \/ MakeTemp
  \/ Spawn
  \/ Validate
  \/ Move
  \/ CommitDone
  \/ FromDisk
  \/ Promote
  \/ UpdateHead
  \/ Kill
  \/ OperatorCleanup
  \/ DocEdited

SpecEdit == Init /\ [][NextEdit]_vars

\* C13: when readStatus() after a backfill shows the channel already in
\* `subscribed`, or no longer in `subscribing`, the step that follows ends the
\* process with an error.
C13_PromotionAsserts ==
  [][ (/\ pc = "promote"
       /\ pc' # "promote"
       /\ (channel \in Range(doc.subscribed) \/ channel \notin Range(doc.subscribing)))
      => pc' \in {"failed", "killed"} ]_vars

(***************************************************************************)
(* Properties of Spec                                                      *)
(***************************************************************************)

\* C1: a channel is in `subscribed` of the persisted document, and was not at
\* the start, only after its subscribe() has returned: the process that moved it
\* has finished its backfill, the catalog holds the channel and every video of
\* its remote list, and a channel of the first document's `subscribing` that is
\* not yet in `subscribed` is still listed in `subscribing`.
C1_PromotionAfterBackfill ==
  /\ \A c \in Range(doc.subscribed) \ Range(docAtStart.subscribed) : c \in backfilled
  /\ \A c \in Range(doc.subscribed) \ Range(doc0.subscribed) :
       /\ \E r \in catChannels : r.channel_id = c
       /\ \A i \in 1..Len(RemoteList(c)) : RemoteList(c)[i] \in KnownIds(catVideos)
  /\ \A c \in Range(doc0.subscribing) \ Range(doc.subscribed) : c \in Range(doc.subscribing)

\* A channel with the longer list has been backfilled and promoted
C1_Promoted ==
  \E c \in Range(doc.subscribed) \ Range(doc0.subscribed) :
    c \in backfilled /\ Len(RemoteList(c)) = MaxListLen

\* C2: when the lists of the first document are disjoint, no channel is in both
\* lists of any document the processes leave behind.
C2_ListsStayDisjoint == Disjoint(doc0) => Disjoint(doc)

\* A promotion has rewritten a document whose lists were disjoint
C2_PromotionWritten ==
  Disjoint(doc0) /\ doc0.exists /\ Range(doc.subscribed) # Range(doc0.subscribed)

\* C4: when the extraction has left anything but one .json, one media file, one
\* thumbnail and otherwise subtitles in the staging directory, the process is
\* about to fail, or has ended, without a file in the video's permanent
\* directory and without an add-video request for it.
C4_InvalidStagingCommitsNothing ==
  LET files == lastListing.files
      one == JsonFiles(files) \cup MediaFiles(files) \cup ThumbFiles(files)
      valid == /\ Cardinality(JsonFiles(files)) = 1
               /\ Cardinality(MediaFiles(files)) = 1
               /\ Cardinality(ThumbFiles(files)) = 1
               /\ \A f \in files \ one : EndsWith(f, "vtt")
  IN (lastListing.video # NoVideo /\ ~valid) =>
       /\ pc \in {"validate", "failed", "killed"}
       /\ pc = "failed" => err = "integrity"
       /\ videoDir[lastListing.video].files = {}
       /\ lastListing.video \notin runCatReqs.addVideo

\* A listing with two media files has ended the process
C4_TwoMediaFilesRejected ==
  /\ pc = "failed" /\ err = "integrity"
  /\ Cardinality(MediaFiles(lastListing.files)) = 2

\* C5: from the point where a video is looked up whose directory holds exactly
\* one of data.json and the media file, the next step ends the process and
\* leaves the media root, the staging directories, the catalog, the document
\* and the record of tool invocations as they are.
C5_ReferentialInconsistencyWritesNothing ==
  [][ (/\ pc = "addVideo"
       /\ ~HasVideo(catVideos, videoId)
       /\ MetadataExists(videoDir[videoId].files) # VideoFileExists(videoDir[videoId].files))
      => /\ pc' \in {"failed", "killed"}
         /\ UNCHANGED <<doc, mediaTemps, tempFiles, channelDir, videoDir,
                        catChannels, catVideos, runTool>>
         /\ runCatReqs'.addVideo = runCatReqs.addVideo
         /\ runCatReqs'.addChannel = runCatReqs.addChannel ]_vars

\* The process has failed on such a directory
C5_FailedOnHalfDirectory ==
  /\ pc = "failed" /\ err = "referential"
  /\ MetadataExists(videoDir[videoId].files) # VideoFileExists(videoDir[videoId].files)
  /\ videoId \notin runTool.video

\* C6: once a process that staged a valid download has ended, the video's
\* permanent directory holds none of the files of the commit or all of them.
C6_AtomicCommit ==
  (/\ pc \in {"failed", "killed"}
   /\ lastListing.video # NoVideo
   /\ StagedError(lastListing.files) = "ok")
  => LET files == videoDir[lastListing.video].files
         dests == PlanDests(lastListing.files)
     IN files \cap dests = {} \/ dests \subseteq files

\* C7: every directory a download has been committed into holds data.json and
\* exactly one of video.mp4 and video.webm.
C7_CommittedShape ==
  \A v \in committed :
    /\ DataJson \in videoDir[v].files
    /\ Cardinality(DiskVids(videoDir[v].files)) = 1

\* A second process has run to its end over a directory committed in this behaviour
C7_CommittedThenRerun ==
  /\ runs = 2 /\ pc = "done"
  /\ \E v \in committed \ OldVideos(doc0) : v \in runCatReqs.hasVideo

\* C8: a process started while the media root held a staging directory has
\* exited without touching the document, the tool or the catalog.
C8_StartupGuard ==
  tempsAtStart =>
    /\ pc = "refused"
    /\ ~runDocTouched
    /\ doc = docAtStart
    /\ runTool = NoTool
    /\ runCatReqs = NoReqs

\* A start has been refused after an earlier process was killed while staging
C8_Refused == pc = "refused" /\ tempsAtStart /\ runs >= 2

\* C9: when a process has ended on the failure of one channel, every channel of
\* its two lists has been taken up by the loops.
C9_LoopContinues ==
  (pc = "failed" /\ err # "both") =>
    \A c \in Range(status.subscribing) \cup Range(status.subscribed) : c \in attempted

\* C10: a process started after one that ran to its end sends no add-channel
\* and no add-video request, downloads nothing and leaves the document as it is.
C10_SecondRunWritesNothing ==
  prevDone =>
    /\ runCatReqs.addChannel = {}
    /\ runCatReqs.addVideo = {}
    /\ runTool.video = {}
    /\ runTool.meta = {}
    /\ doc = docAtStart

\* The second process has scanned a channel and run to its end
C10_SecondRunDone == prevDone /\ pc = "done" /\ runTool.list # {}

\* C11: after a first process that ran to its end, a channel that was in
\* `subscribing` and not in `subscribed` of the first document is out of
\* `subscribing`, in `subscribed`, without a pending title, and the catalog
\* holds one row for the channel and one row for each video of its remote
\* list, and no other row of that channel.
C11_FullSync ==
  (runs = 1 /\ pc = "done") =>
    \A c \in Range(doc0.subscribing) \ Range(doc0.subscribed) :
      /\ c \notin Range(doc.subscribing)
      /\ c \in Range(doc.subscribed)
      /\ c \notin doc.titles
      /\ Cardinality({r \in catChannels : r.channel_id = c}) = 1
      /\ Cardinality({r \in catVideos : r.channel_id = c}) = Len(RemoteList(c))
      /\ {r.video_id : r \in {x \in catVideos : x.channel_id = c}} = Range(RemoteList(c))

\* The first process has synced the channel with the longer list and ended
C11_SyncedLongList ==
  /\ runs = 1 /\ pc = "done"
  /\ \E c \in Range(doc0.subscribing) \ Range(doc0.subscribed) :
       Len(RemoteList(c)) = MaxListLen /\ c \in doc0.titles

\* C12: a process that has loaded a document listing a channel in both lists
\* goes no further: it runs no tool and sends the catalog no request about a
\* channel or a video.
C12_DetectedOnLoad ==
  (runDocTouched /\ ~Disjoint(docAtStart)) =>
    /\ runTool = NoTool
    /\ runCatReqs.hasChannel = {}
    /\ runCatReqs.addChannel = {}
    /\ runCatReqs.addVideo = {}

\* C14 as stated: a process that has run to its end has started an incremental
\* update for every channel of `subscribed`, and none while `subscribing` was
\* not empty.
C14_AllSubscribedUpdated ==
  /\ pc = "done" => \A c \in Range(status.subscribed) : c \in updated
  /\ updated # {} => status.subscribing = <<>>

\* C14, amended: the update loop takes the channels of `subscribed` in order;
\* of the channels it has come past, it has started an incremental update for
\* exactly those this process has not backfilled itself; a process that has run
\* to its end has come past all of them; no incremental update starts while
\* the `subscribing` list the process holds is not empty.
C14_UpdatesAfterDrain ==
  /\ \A i \in 1..Len(status.subscribed) :
       i < updIdx => (status.subscribed[i] \in updated <=> status.subscribed[i] \notin subbed)
  /\ updated \cap subbed = {}
  /\ pc = "done" => updIdx > Len(status.subscribed)
  /\ updated # {} => status.subscribing = <<>>

\* A process has backfilled one channel, updated another and run to its end
C14_BackfilledAndUpdated == pc = "done" /\ subbed # {} /\ updated # {}

\* C15: once the ingestion of a video has raised an error, the process has
\* ended: none of the videos of the scan that come after it has been handed to
\* the extraction tool or sent to the catalog, and a channel that was being
\* backfilled has not been moved to `subscribed`.
C15_FailedVideoEndsChannel ==
  (videoId # NoVideo /\ err \notin {"none", "killed"}) =>
    /\ pc = "failed"
    /\ \A i \in 1..Len(videoIds) :
         /\ videoIds[i] \notin runTool.video
         /\ videoIds[i] \notin runCatReqs.addVideo
         /\ videoIds[i] \notin runCatReqs.hasVideo
    /\ mode = "subscribe" =>
         /\ channel \notin backfilled
         /\ channel \notin Range(doc.subscribed) \ Range(docAtStart.subscribed)

\* The first video of a backfill has failed with another one still to come
C15_FirstOfTwoFailed ==
  /\ pc = "failed" /\ err = "tool" /\ mode = "subscribe"
  /\ videoId # NoVideo /\ videoIds # <<>>
  /\ channel \in Range(doc.subscribing)

\* C16: a video whose download has been committed is not staged again, and
\* once a process that has taken up the video's channel has run to its end, the
\* video is in the catalog.
C16_CommittedIsCataloged ==
  /\ pc \in {"stage", "spawn", "validate", "move"} => videoId \notin committed
  /\ pc = "done" =>
       \A v \in committed : ChannelOf(v) \in attempted => HasVideo(catVideos, v)

\* C17: every step that ends an ingestion attempt which has a staging
\* directory, other than the process being killed, removes the staging
\* directory with what is left in it; when the attempt ends in success, every
\* file of the commit is in the permanent directory.
C17_StagingRemoved ==
  [][ (pc \in {"spawn", "validate", "move"} /\ pc' \notin {"spawn", "validate", "move", "killed"})
      => /\ mediaTemps' = mediaTemps - 1
         /\ tempFiles' = {}
         /\ pc' # "failed" =>
              /\ pc' = "fromDisk"
              /\ PlanDests(lastListing.files) \subseteq videoDir'[videoId].files ]_vars

\* A move has failed midway in the first process and no staging directory is left
C17_FailedMoveCleaned ==
  /\ runs = 1 /\ pc = "failed" /\ err = "move" /\ mediaTemps = 0
  /\ videoDir[videoId].files # {}

\* C24: whenever this process has run the extraction tool for a video of a
\* channel, or sent add-video for one, has-channel or add-channel had answered
\* true for that channel earlier in the same process; the same holds while a
\* channel's videos are being gone through.
C24_ChannelEnsuredFirst ==
  /\ \A v \in runTool.video \cup runCatReqs.addVideo :
       ChannelOf(v) \in runCatReqs.channelOk
  /\ pc \in {"scan", "videoLoop", "addVideo", "stage", "spawn", "validate", "move",
             "fromDisk"}
     => channel \in runCatReqs.channelOk

\* A video was downloaded and registered after add-channel for its channel
C24_RegisteredThenIngested ==
  \E v \in runTool.video \cap runCatReqs.addVideo :
    /\ ChannelOf(v) \in runCatReqs.addChannel
    /\ \E r \in catVideos : r.video_id = v

\* C25: while a process runs, the media root holds at most one tmp-localtube-
\* directory, and only while one video is being staged (from the download to the
\* end of its commit); the download under way is of a video of the one channel
\* being processed, and every other channel this process has entered has
\* returned.
C25_StrictlySequential ==
  Running =>
    /\ mediaTemps <= 1
    /\ mediaTemps = 1 => pc \in {"spawn", "validate", "move"} /\ videoId # NoVideo
    /\ pc \in {"spawn", "validate", "move"} =>
         mediaTemps = 1 /\ channel # NoChannel /\ ChannelOf(videoId) = channel
    /\ \A c \in attempted \ {channel} : c \in backfilled \/ c \in updated

\* A second video's download is under way in its own staging directory after
\* the first one's was removed
C25_SecondVideoStaged ==
  /\ pc = "spawn" /\ mediaTemps = 1
  /\ runTool.video # {} /\ videoId \notin runTool.video

\* C26: the write that moves a channel from `subscribing` to `subscribed` also
\* removes that channel's entry from `titles` and leaves the other entries as
\* they were; no channel this process has promoted has an entry in the
\* document's `titles`.
C26_TitleClearedOnPromotion ==
  [][/\ (pc = "promote" /\ channel \in Range(doc'.subscribed) \ Range(doc.subscribed))
        => /\ channel \in doc.titles
           /\ doc'.titles = doc.titles \ {channel}
     /\ \A c \in subbed' : c \notin doc'.titles]_vars

\* One channel has been promoted and its title removed while the other one
\* still waits with its title
C26_OtherTitleKept ==
  /\ pc = "drain"
  /\ \E c \in subbed : c \in doc0.titles /\ c \in Range(doc.subscribed) /\ c \notin doc.titles
  /\ \E c \in Range(doc.subscribing) : c \in doc.titles

\* C30: when a row is added to the catalog's videos, the video's permanent
\* directory holds data.json and exactly one of video.mp4 and video.webm, no
\* staging directory is left, and the row names that media file, the
\* directory's thumbnail if it has one, and the languages of its subtitle files.
C30_RegisteredFromDisk ==
  [][\A r \in catVideos' \ catVideos :
       LET files == videoDir[r.video_id].files
       IN /\ r.video_id = videoId /\ r.channel_id = channel
          /\ mediaTemps = 0 /\ tempFiles = {}
          /\ DataJson \in files
          /\ DiskVids(files) = {r.video_filename}
          /\ DiskThumbs(files) = IF r.thumb_filename = NoFile THEN {} ELSE {r.thumb_filename}
          /\ r.subtitles = {SubSeq(f, 2, Len(f) - 1) : f \in DiskSubs(files)}]_vars

\* A video downloaded as webm with subtitles is in the catalog under the names
\* of its permanent directory
C30_WebmRegistered ==
  \E r \in catVideos :
    /\ r.video_id \in runTool.video
    /\ r.video_filename = VideoWebm
    /\ r.subtitles # {}
    /\ r.thumb_filename # NoFile

AppendsKept ==
  [][(doc' # doc /\ appended'.unseen \cup appended'.late \cup appended'.seen
                     = appended.unseen \cup appended.late \cup appended.seen)
      => \A c \in appended'.seen \cup appended'.unseen \cup appended'.late :
           Includes(doc'.subscribing, c) \/ Includes(doc'.subscribed, c)]_vars

====
